---- MODULE Spec2Model ----
(***************************************************************************)
(* A model of four parts of the twilight client library:                   *)
(*   - the in-memory cache's event handlers (cache/in-memory/updates.rs),  *)
(*   - the in-memory REST rate limiter (http/ratelimiting/in_memory),      *)
(*   - the parser of its response headers (http/ratelimiting/headers.rs),  *)
(*   - the builder of a cluster of shards (gateway/cluster/builder.rs).    *)
(* The cache is one record, `cache`, whose fields carry the names of the   *)
(* fields of InMemoryCache (cache.0.<field> in the source).  Every handler *)
(* is an operator from a cache and a payload to the cache that results.    *)
(***************************************************************************)
EXTENDS Integers, Sequences, FiniteSets, TLC

VARIABLES
    cache,      \* the InMemoryCache: its configuration and its tables
    last,       \* the event most recently handed to InMemoryCache::update,
                \* with what its handler read of the row it is about
    budget,     \* how many more events the behaviour applies
    writer,     \* the update() call in progress, when its steps are taken
                \* one at a time
    \* InMemoryRatelimiter
    buckets,    \* the registry: Path -> Arc<Bucket>, guarded by one mutex
    heap,       \* the Bucket objects ever allocated, by address
    tasks,      \* the BucketQueueTask spawned for each Bucket object
    tickets,    \* the tickets ever requested, in request order
    global,     \* the GlobalLockPair: its AtomicBool and its async mutex
    signalled,  \* the tickets signalled so far, in the order of the signals
    now,        \* the clock
    global_until, \* when the latest reported global cooldown ends
    \* Headers::try_from
    response,   \* the HeaderMap of a response
    parsed,     \* what Headers::try_from(response.headers()) returned, once it has run
    \* ClusterBuilder
    builder,    \* the ClusterBuilder: (ClusterConfig, ShardBuilder)
    calls,      \* the builder methods called so far, with their arguments
    outcome,    \* what ended the chain: the Result of build, or the error
                \* of a builder method
    \* the locks of the cache's tables
    locks,      \* the tables locked at the moment, each with the task that
                \* holds its lock
    producers   \* the update() call each producer task is in, and the place
                \* it has reached in it

----------------------------------------------------------------------------
(* Bounds of the model.                                                    *)

\* events applied in one behaviour of Spec
MaxEvents == 3
\* events applied in one behaviour of SpecMsg
MaxMsgEvents == 5
\* the greatest configured message_cache_size
MaxCacheSize == 2
\* events applied in one behaviour of SpecFilter
MaxFilterEvents == 2
\* builder methods called between ClusterBuilder::new and build
MaxBuilderCalls == 3
\* producer tasks calling update() at once in SpecLocks
MaxProducers == 2
\* update() calls in one behaviour of SpecRemove
MaxRemoveEvents == 3
\* tickets requested in one behaviour of SpecRLFair
MaxFairTickets == 2
\* events applied in one behaviour of SpecConc
MaxConcEvents == 3
\* tickets requested in one behaviour of SpecRL
MaxTickets == 3
\* the clock stops here
MaxTime == 1

----------------------------------------------------------------------------
(* Identifier domains and payload values.                                  *)

GuildIds == {1, 2}
UserIds == {1, 2}
ChannelIds == {1, 2}
RoleIds == {1}
EmojiIds == {1}
MessageIds == {10, 20, 30}
ReactionEmojis == {"a", "b"}

\* Option<T> is a set with at most one element.
None == {}
Some(x) == {x}

----------------------------------------------------------------------------
(* Maps: a DashMap / HashMap / BTreeMap is a function on its present keys. *)

EmptyMap == [x \in {} |-> {}]
Has(m, k) == k \in DOMAIN m
Put(m, k, v) == [x \in (DOMAIN m) \cup {k} |-> IF x = k THEN v ELSE m[x]]
Del(m, k) == [x \in (DOMAIN m) \ {k} |-> m[x]]
DelAll(m, ks) == [x \in (DOMAIN m) \ ks |-> m[x]]
\* entry(k).or_default() on a map of sets or of maps
OrDefault(m, k, d) == IF Has(m, k) THEN m ELSE Put(m, k, d)
\* entry(k).or_default().insert(x) on a map of sets
IndexInsert(m, k, x) == Put(m, k, (IF Has(m, k) THEN m[k] ELSE {}) \cup {x})
\* get_mut(k).map(|set| set.remove(x)) on a map of sets
IndexRemove(m, k, x) == IF Has(m, k) THEN Put(m, k, m[k] \ {x}) ELSE m

Max(S) == CHOOSE x \in S : \A y \in S : y <= x

----------------------------------------------------------------------------
(* Configuration: the EventType bitset and the message cache size.         *)

EventTypes ==
    {"CHANNEL_CREATE", "CHANNEL_DELETE", "CHANNEL_PINS_UPDATE", "CHANNEL_UPDATE",
     "GUILD_CREATE", "GUILD_DELETE", "GUILD_EMOJIS_UPDATE", "GUILD_UPDATE",
     "MEMBER_ADD", "MEMBER_REMOVE", "MEMBER_UPDATE", "MEMBER_CHUNK",
     "MESSAGE_CREATE", "MESSAGE_DELETE", "MESSAGE_DELETE_BULK", "MESSAGE_UPDATE",
     "PRESENCE_UPDATE", "REACTION_ADD", "REACTION_REMOVE", "REACTION_REMOVE_ALL",
     "READY", "ROLE_CREATE", "ROLE_DELETE", "ROLE_UPDATE", "UNAVAILABLE_GUILD",
     "USER_UPDATE", "VOICE_SERVER_UPDATE", "VOICE_STATE_UPDATE"}

guard(this, event_type) == event_type \in this.config.event_types

EmptyCache(event_types, message_cache_size) ==
    [config |-> [event_types |-> event_types,
                 message_cache_size |-> message_cache_size],
     guilds |-> EmptyMap,
     unavailable_guilds |-> {},
     channels_guild |-> EmptyMap,
     channels_private |-> EmptyMap,
     groups |-> EmptyMap,
     guild_channels |-> EmptyMap,
     emojis |-> EmptyMap,
     guild_emojis |-> EmptyMap,
     roles |-> EmptyMap,
     guild_roles |-> EmptyMap,
     members |-> EmptyMap,
     guild_members |-> EmptyMap,
     presences |-> EmptyMap,
     guild_presences |-> EmptyMap,
     voice_states |-> EmptyMap,
     voice_state_guilds |-> EmptyMap,
     users |-> EmptyMap,
     current_user |-> None,
     messages |-> EmptyMap]

----------------------------------------------------------------------------
(* Helpers of InMemoryCache that the handlers call (cache/in-memory/lib.rs). *)

upsert_item(map, k, v) == Put(map, k, v)

upsert_guild_item(map, guild_id, k, v) ==
    Put(map, k, [data |-> v, guild_id |-> guild_id])

\* Intern a user; with a guild, the guild joins the user's guild set.  The
\* row of users is the guild set (the `.1` of the source's tuple).
cache_user(s, user_id, guild_id) ==
    IF guild_id = None THEN s
    ELSE [s EXCEPT !.users =
            Put(@, user_id,
                (IF Has(@, user_id) THEN @[user_id] ELSE {}) \cup guild_id)]

cache_member(s, guild_id, member) ==
    cache_user([s EXCEPT !.members =
                    Put(@, <<guild_id, member.user>>, [nick |-> member.nick])],
               member.user, Some(guild_id))

RECURSIVE cache_members(_, _, _)
cache_members(s, guild_id, members) ==
    IF members = {} THEN s
    ELSE LET m == CHOOSE x \in members : TRUE
         IN cache_members(cache_member(s, guild_id, m), guild_id, members \ {m})

cache_borrowed_partial_member(s, guild_id, member, user_id) ==
    [s EXCEPT !.guild_members = IndexInsert(@, guild_id, user_id),
              !.members = Put(@, <<guild_id, user_id>>, [nick |-> member.nick])]

cache_guild_channel(s, guild_id, channel) ==
    [s EXCEPT !.guild_channels = IndexInsert(@, guild_id, channel.id),
              !.channels_guild =
                  upsert_guild_item(@, guild_id, channel.id,
                      [kind |-> channel.kind,
                       last_pin_timestamp |-> channel.last_pin_timestamp])]

cache_private_channel(s, channel) ==
    [s EXCEPT !.channels_private =
        upsert_item(@, channel.id,
                    [last_pin_timestamp |-> channel.last_pin_timestamp])]

cache_group(s, channel) ==
    [s EXCEPT !.groups =
        upsert_item(@, channel.id,
                    [last_pin_timestamp |-> channel.last_pin_timestamp])]

delete_group(s, id) == [s EXCEPT !.groups = Del(@, id)]

\* Removes the row and takes the id out of the index of the row's guild.
delete_guild_channel(s, id) ==
    IF ~Has(s.channels_guild, id) THEN s
    ELSE [s EXCEPT !.channels_guild = Del(@, id),
                   !.guild_channels =
                       IndexRemove(@, s.channels_guild[id].guild_id, id)]

cache_role(s, guild_id, role_id) ==
    [s EXCEPT !.guild_roles = IndexInsert(@, guild_id, role_id),
              !.roles = upsert_guild_item(@, guild_id, role_id, role_id)]

delete_role(s, role_id) ==
    IF ~Has(s.roles, role_id) THEN s
    ELSE [s EXCEPT !.roles = Del(@, role_id),
                   !.guild_roles =
                       IndexRemove(@, s.roles[role_id].guild_id, role_id)]

\* Replace the guild's emoji set with the payload.
cache_emojis(s, guild_id, emojis) ==
    LET old == IF Has(s.guild_emojis, guild_id)
               THEN s.guild_emojis[guild_id] ELSE {}
        kept == DelAll(s.emojis, old \ emojis)
    IN [s EXCEPT !.guild_emojis = Put(@, guild_id, emojis),
                 !.emojis = [e \in (DOMAIN kept) \cup emojis |->
                                IF e \in emojis
                                THEN [data |-> e, guild_id |-> guild_id]
                                ELSE kept[e]]]

cache_presence(s, guild_id, presence) ==
    [s EXCEPT !.guild_presences = IndexInsert(@, guild_id, presence.user),
              !.presences = Put(@, <<guild_id, presence.user>>,
                                [status |-> presence.status])]

cache_voice_state(s, vs) ==
    IF vs.guild_id = None THEN s
    ELSE LET g == CHOOSE x \in vs.guild_id : TRUE
         IN [s EXCEPT !.voice_state_guilds = IndexInsert(@, g, vs.user_id),
                      !.voice_states = Put(@, <<g, vs.user_id>>,
                                           [channel_id |-> vs.channel_id])]

cache_current_user(s, user_id) == [s EXCEPT !.current_user = Some(user_id)]

current_user(s) == s.current_user

unavailable_guild(s, guild_id) ==
    [s EXCEPT !.unavailable_guilds = @ \cup {guild_id},
              !.guilds = Del(@, guild_id)]

RECURSIVE cache_guild_channels(_, _, _)
cache_guild_channels(s, guild_id, channels) ==
    IF channels = {} THEN s
    ELSE LET c == CHOOSE x \in channels : TRUE
         IN cache_guild_channels(
                cache_guild_channel(s, guild_id,
                    [id |-> c, kind |-> "Text", last_pin_timestamp |-> None]),
                guild_id, channels \ {c})

RECURSIVE cache_roles(_, _, _)
cache_roles(s, guild_id, roles) ==
    IF roles = {} THEN s
    ELSE LET r == CHOOSE x \in roles : TRUE
         IN cache_roles(cache_role(s, guild_id, r), guild_id, roles \ {r})

RECURSIVE cache_presences(_, _, _)
cache_presences(s, guild_id, users) ==
    IF users = {} THEN s
    ELSE LET u == CHOOSE x \in users : TRUE
         IN cache_presences(
                cache_presence(s, guild_id, [user |-> u, status |-> "online"]),
                guild_id, users \ {u})

RECURSIVE cache_voice_states(_, _, _)
cache_voice_states(s, guild_id, users) ==
    IF users = {} THEN s
    ELSE LET u == CHOOSE x \in users : TRUE
         IN cache_voice_states(
                cache_voice_state(s, [guild_id |-> Some(guild_id), user_id |-> u,
                                      channel_id |-> None]),
                guild_id, users \ {u})

\* Insert the guild; split it into its channels, emojis, members, presences,
\* roles and voice states, rebuilding every index of this guild.
cache_guild(s, guild) ==
    LET g == guild.id
        s0 == [s EXCEPT !.guild_channels = Put(@, g, {}),
                        !.guild_emojis = Put(@, g, {}),
                        !.guild_members = Put(@, g, {}),
                        !.guild_presences = Put(@, g, {}),
                        !.guild_roles = Put(@, g, {}),
                        !.voice_state_guilds = Put(@, g, {})]
        s1 == cache_guild_channels(s0, g, guild.channels)
        s2 == cache_emojis(s1, g, guild.emojis)
        s3 == cache_members(s2, g,
                  {[user |-> u, nick |-> None] : u \in guild.members})
        s4 == [s3 EXCEPT !.guild_members = Put(@, g, guild.members)]
        s5 == cache_presences(s4, g, guild.presences)
        s6 == cache_roles(s5, g, guild.roles)
        s7 == cache_voice_states(s6, g, guild.voice_states)
    IN [s7 EXCEPT !.unavailable_guilds = @ \ {g},
                  !.guilds = Put(@, g,
                      [name |-> guild.name, owner_id |-> guild.owner_id,
                       max_presences |-> guild.max_presences,
                       premium_subscription_count |->
                           guild.premium_subscription_count])]

----------------------------------------------------------------------------
(* The handlers of cache/in-memory/src/updates.rs, one operator each:      *)
(* the cache after InMemoryCache::update(event).                           *)

UnwrapOr(opt, d) == IF opt = None THEN d ELSE CHOOSE x \in opt : TRUE

ChannelCreate(s, c) ==
    IF ~guard(s, "CHANNEL_CREATE") THEN s
    ELSE CASE c.variant = "Group" ->
                [s EXCEPT !.groups =
                    upsert_item(@, c.id,
                                [last_pin_timestamp |-> c.last_pin_timestamp])]
           [] c.variant = "Guild" ->
                IF c.guild_id # None
                THEN cache_guild_channel(s, UnwrapOr(c.guild_id, 0), c)
                ELSE s
           [] OTHER -> cache_private_channel(s, c)

\* ChannelDelete::update taking a guild channel out of its table only.
ChannelDeleteRowOnly(s, c) ==
    IF ~guard(s, "CHANNEL_DELETE") THEN s
    ELSE CASE c.variant = "Group" -> delete_group(s, c.id)
           [] c.variant = "Guild" -> [s EXCEPT !.channels_guild = Del(@, c.id)]
           [] OTHER -> [s EXCEPT !.channels_private = Del(@, c.id)]

ChannelDelete(s, c) ==
    IF ~guard(s, "CHANNEL_DELETE") THEN s
    ELSE CASE c.variant = "Group" -> delete_group(s, c.id)
           [] c.variant = "Guild" -> delete_guild_channel(s, c.id)
           [] OTHER -> [s EXCEPT !.channels_private = Del(@, c.id)]

ChannelPinsUpdate(s, ev) ==
    IF ~guard(s, "CHANNEL_PINS_UPDATE") THEN s
    ELSE IF Has(s.channels_guild, ev.channel_id)
    THEN IF s.channels_guild[ev.channel_id].data.kind = "Text"
         THEN [s EXCEPT !.channels_guild[ev.channel_id].data.last_pin_timestamp =
                            ev.last_pin_timestamp]
         ELSE s
    ELSE IF Has(s.channels_private, ev.channel_id)
    THEN [s EXCEPT !.channels_private[ev.channel_id].last_pin_timestamp =
                       ev.last_pin_timestamp]
    ELSE IF Has(s.groups, ev.channel_id)
    THEN [s EXCEPT !.groups[ev.channel_id].last_pin_timestamp =
                       ev.last_pin_timestamp]
    ELSE s

\* ChannelUpdate::update storing a guild channel without indexing it.
ChannelUpdateSkipsIndex(s, c) ==
    IF ~guard(s, "CHANNEL_UPDATE") THEN s
    ELSE CASE c.variant = "Group" -> cache_group(s, c)
           [] c.variant = "Guild" ->
                IF c.guild_id # None
                THEN [cache_guild_channel(s, UnwrapOr(c.guild_id, 0), c)
                        EXCEPT !.guild_channels = s.guild_channels]
                ELSE s
           [] OTHER -> cache_private_channel(s, c)

ChannelUpdate(s, c) ==
    IF ~guard(s, "CHANNEL_UPDATE") THEN s
    ELSE CASE c.variant = "Group" -> cache_group(s, c)
           [] c.variant = "Guild" ->
                IF c.guild_id # None
                THEN cache_guild_channel(s, UnwrapOr(c.guild_id, 0), c)
                ELSE s
           [] OTHER -> cache_private_channel(s, c)

GuildCreate(s, guild) ==
    IF ~guard(s, "GUILD_CREATE") THEN s ELSE cache_guild(s, guild)

\* fn remove_ids of GuildDelete::update: take the guild's entry out of the
\* index and every id it held out of the container.
remove_ids(s, guild_map, container, guild_id) ==
    IF Has(s[guild_map], guild_id)
    THEN [s EXCEPT ![guild_map] = Del(@, guild_id),
                   ![container] = DelAll(@, s[guild_map][guild_id])]
    ELSE s

\* The same for the two tables keyed by (guild id, user id).
remove_user_ids(s, guild_map, container, guild_id) ==
    IF Has(s[guild_map], guild_id)
    THEN [s EXCEPT ![guild_map] = Del(@, guild_id),
                   ![container] =
                       DelAll(@, {<<guild_id, u>> : u \in s[guild_map][guild_id]})]
    ELSE s

GuildDelete(s, id) ==
    IF ~guard(s, "GUILD_DELETE") THEN s
    ELSE LET s1 == [s EXCEPT !.guilds = Del(@, id)]
             s2 == remove_ids(s1, "guild_channels", "channels_guild", id)
             s3 == remove_ids(s2, "guild_emojis", "emojis", id)
             s4 == remove_ids(s3, "guild_roles", "roles", id)
             s5 == [s4 EXCEPT !.voice_state_guilds = Del(@, id)]
             s6 == remove_user_ids(s5, "guild_members", "members", id)
         IN remove_user_ids(s6, "guild_presences", "presences", id)

GuildEmojisUpdate(s, ev) ==
    IF ~guard(s, "GUILD_EMOJIS_UPDATE") THEN s
    ELSE cache_emojis(s, ev.guild_id, ev.emojis)

\* GuildUpdate::update storing max_presences as the payload gives it.
GuildUpdateKeepsNull(s, pg) ==
    IF ~guard(s, "GUILD_UPDATE") THEN s
    ELSE IF Has(s.guilds, pg.id)
    THEN [s EXCEPT !.guilds[pg.id] =
            [name |-> pg.name, owner_id |-> pg.owner_id,
             max_presences |-> pg.max_presences,
             premium_subscription_count |->
                 Some(UnwrapOr(pg.premium_subscription_count, 0))]]
    ELSE s

GuildUpdate(s, pg) ==
    IF ~guard(s, "GUILD_UPDATE") THEN s
    ELSE IF Has(s.guilds, pg.id)
    THEN [s EXCEPT !.guilds[pg.id] =
            [name |-> pg.name, owner_id |-> pg.owner_id,
             max_presences |-> Some(UnwrapOr(pg.max_presences, 25000)),
             premium_subscription_count |->
                 Some(UnwrapOr(pg.premium_subscription_count, 0))]]
    ELSE s

MemberAdd(s, member) ==
    IF ~guard(s, "MEMBER_ADD") THEN s
    ELSE [cache_member(s, member.guild_id, member) EXCEPT
            !.guild_members = IndexInsert(@, member.guild_id, member.user)]

\* MemberChunk::update guarded by the flag of MemberAdd.
MemberChunkGuardedAsMemberAdd(s, ev) ==
    IF ~guard(s, "MEMBER_ADD") THEN s
    ELSE IF ev.members = {} THEN s
    ELSE [cache_members(s, ev.guild_id, ev.members) EXCEPT
            !.guild_members =
                Put(@, ev.guild_id,
                    (IF Has(@, ev.guild_id) THEN @[ev.guild_id] ELSE {})
                        \cup {m.user : m \in ev.members})]

MemberChunk(s, ev) ==
    IF ~guard(s, "MEMBER_CHUNK") THEN s
    ELSE IF ev.members = {} THEN s
    ELSE [cache_members(s, ev.guild_id, ev.members) EXCEPT
            !.guild_members =
                Put(@, ev.guild_id,
                    (IF Has(@, ev.guild_id) THEN @[ev.guild_id] ELSE {})
                        \cup {m.user : m \in ev.members})]

\* MemberRemove::update without the remove_if that drops a user row whose
\* guild set has become empty.
MemberRemoveKeepsEmptyUser(s, ev) ==
    IF ~guard(s, "MEMBER_REMOVE") THEN s
    ELSE LET s1 == [s EXCEPT !.members = Del(@, <<ev.guild_id, ev.user>>),
                             !.guild_members = IndexRemove(@, ev.guild_id, ev.user)]
         IN IF Has(s1.users, ev.user)
            THEN [s1 EXCEPT !.users[ev.user] = @ \ {ev.guild_id}]
            ELSE s1

MemberRemove(s, ev) ==
    IF ~guard(s, "MEMBER_REMOVE") THEN s
    ELSE LET s1 == [s EXCEPT !.members = Del(@, <<ev.guild_id, ev.user>>),
                             !.guild_members =
                                 IndexRemove(@, ev.guild_id, ev.user)]
         IN IF Has(s1.users, ev.user)
            THEN LET guild_set == s1.users[ev.user] \ {ev.guild_id}
                 IN IF guild_set = {}
                    THEN [s1 EXCEPT !.users = Del(@, ev.user)]
                    ELSE [s1 EXCEPT !.users[ev.user] = guild_set]
            ELSE s1

MemberUpdate(s, ev) ==
    IF ~guard(s, "MEMBER_UPDATE") THEN s
    ELSE IF Has(s.members, <<ev.guild_id, ev.user>>)
    THEN [s EXCEPT !.members[<<ev.guild_id, ev.user>>].nick = ev.nick]
    ELSE s

\* messages.entry(channel_id).or_default()
ChannelMessages(s, channel_id) ==
    IF Has(s.messages, channel_id) THEN s.messages[channel_id] ELSE EmptyMap

\* From<Message> for CachedMessage
CachedMessage(msg) ==
    [author |-> msg.author, content |-> msg.content, reactions |-> msg.reactions]

\* MessageCreate::update without its call of cache_borrowed_partial_member.
MessageCreateWithoutMember(s, msg) ==
    IF ~guard(s, "MESSAGE_CREATE") THEN s
    ELSE LET channel == ChannelMessages(s, msg.channel_id)
             evicted ==
                 IF Cardinality(DOMAIN channel) > s.config.message_cache_size
                 THEN Del(channel, Max(DOMAIN channel))
                 ELSE channel
             s1 == [s EXCEPT !.messages =
                        Put(@, msg.channel_id,
                            Put(evicted, msg.id, CachedMessage(msg)))]
             s2 == cache_user(s1, msg.author, msg.guild_id)
         IN IF FALSE
            THEN cache_borrowed_partial_member(
                     s2, UnwrapOr(msg.guild_id, 0),
                     UnwrapOr(msg.member, [nick |-> None]), msg.author)
            ELSE s2

MessageCreate(s, msg) ==
    IF ~guard(s, "MESSAGE_CREATE") THEN s
    ELSE LET channel == ChannelMessages(s, msg.channel_id)
             evicted ==
                 IF Cardinality(DOMAIN channel) > s.config.message_cache_size
                 THEN Del(channel, Max(DOMAIN channel))
                 ELSE channel
             s1 == [s EXCEPT !.messages =
                        Put(@, msg.channel_id,
                            Put(evicted, msg.id, CachedMessage(msg)))]
             s2 == cache_user(s1, msg.author, msg.guild_id)
         IN IF msg.member # None /\ msg.guild_id # None
            THEN cache_borrowed_partial_member(
                     s2, UnwrapOr(msg.guild_id, 0),
                     UnwrapOr(msg.member, [nick |-> None]), msg.author)
            ELSE s2

MessageDelete(s, ev) ==
    IF ~guard(s, "MESSAGE_DELETE") THEN s
    ELSE [s EXCEPT !.messages =
            Put(@, ev.channel_id, Del(ChannelMessages(s, ev.channel_id), ev.id))]

MessageDeleteBulk(s, ev) ==
    IF ~guard(s, "MESSAGE_DELETE_BULK") THEN s
    ELSE [s EXCEPT !.messages =
            Put(@, ev.channel_id,
                DelAll(ChannelMessages(s, ev.channel_id), ev.ids))]

MessageUpdate(s, ev) ==
    IF ~guard(s, "MESSAGE_UPDATE") THEN s
    ELSE LET channel == ChannelMessages(s, ev.channel_id)
         IN [s EXCEPT !.messages =
                Put(@, ev.channel_id,
                    IF Has(channel, ev.id) /\ ev.content # None
                    THEN [channel EXCEPT ![ev.id].content =
                              UnwrapOr(ev.content, "")]
                    ELSE channel)]

PresenceUpdate(s, ev) ==
    IF ~guard(s, "PRESENCE_UPDATE") THEN s
    ELSE cache_presence(s, ev.guild_id, [user |-> ev.user, status |-> ev.status])

\* msg.reactions.iter_mut().find(|r| r.emoji == emoji): the index of the
\* first entry with that emoji, 0 when there is none.
FindReaction(reactions, emoji) ==
    IF \E i \in 1..Len(reactions) : reactions[i].emoji = emoji
    THEN CHOOSE i \in 1..Len(reactions) :
            /\ reactions[i].emoji = emoji
            /\ \A j \in 1..(i - 1) : reactions[j].emoji # emoji
    ELSE 0

\* ReactionAdd::update with the self-reacted flag assigned on every add.
AddReactionAssignsSelf(reactions, emoji, user_id, cur) ==
    LET i == FindReaction(reactions, emoji)
        me == cur # None /\ cur = Some(user_id)
    IN IF i # 0
       THEN [reactions EXCEPT
                ![i] = [count |-> @.count + 1, emoji |-> @.emoji, me |-> me]]
       ELSE Append(reactions, [count |-> 1, emoji |-> emoji, me |-> me])

\* The body of ReactionAdd::update on one message's reactions.
AddReaction(reactions, emoji, user_id, cur) ==
    LET i == FindReaction(reactions, emoji)
    IN IF i # 0
       THEN [reactions EXCEPT
                ![i] = [count |-> @.count + 1,
                        emoji |-> @.emoji,
                        me |-> IF ~@.me /\ cur # None /\ cur = Some(user_id)
                               THEN TRUE ELSE @.me]]
       ELSE Append(reactions,
                   [count |-> 1, emoji |-> emoji,
                    me |-> (cur # None /\ cur = Some(user_id))])

\* msg.reactions.retain(|e| !(e.emoji == emoji))
RECURSIVE RetainNot(_, _)
RetainNot(reactions, emoji) ==
    IF reactions = <<>> THEN <<>>
    ELSE IF Head(reactions).emoji = emoji
    THEN RetainNot(Tail(reactions), emoji)
    ELSE <<Head(reactions)>> \o RetainNot(Tail(reactions), emoji)

\* ReactionRemove::update without the step that clears the self-reacted flag.
RemoveReactionKeepsSelf(reactions, emoji, user_id, cur) ==
    LET i == FindReaction(reactions, emoji)
    IN IF i = 0 THEN reactions
       ELSE IF reactions[i].count > 1
            THEN [reactions EXCEPT ![i].count = @ - 1]
            ELSE RetainNot(reactions, emoji)

\* ReactionRemove::update decrementing whenever the count is positive, so
\* that an entry can stay with count 0.
RemoveReactionToZero(reactions, emoji, user_id, cur) ==
    LET i == FindReaction(reactions, emoji)
    IN IF i = 0 THEN reactions
       ELSE LET me == IF reactions[i].me /\ cur # None /\ cur = Some(user_id)
                      THEN FALSE ELSE reactions[i].me
            IN IF reactions[i].count > 0
               THEN [reactions EXCEPT ![i] = [count |-> @.count - 1,
                                              emoji |-> @.emoji, me |-> me]]
               ELSE RetainNot(reactions, emoji)

\* The body of ReactionRemove::update on one message's reactions.
RemoveReaction(reactions, emoji, user_id, cur) ==
    LET i == FindReaction(reactions, emoji)
    IN IF i = 0 THEN reactions
       ELSE LET me == IF reactions[i].me /\ cur # None /\ cur = Some(user_id)
                      THEN FALSE ELSE reactions[i].me
            IN IF reactions[i].count > 1
               THEN [reactions EXCEPT ![i] = [count |-> @.count - 1,
                                              emoji |-> @.emoji, me |-> me]]
               ELSE RetainNot(reactions, emoji)

ReactionAdd(s, ev) ==
    IF ~guard(s, "REACTION_ADD") THEN s
    ELSE LET channel == ChannelMessages(s, ev.channel_id)
         IN [s EXCEPT !.messages =
                Put(@, ev.channel_id,
                    IF Has(channel, ev.message_id)
                    THEN [channel EXCEPT ![ev.message_id].reactions =
                            AddReaction(@, ev.emoji, ev.user_id, current_user(s))]
                    ELSE channel)]

ReactionRemove(s, ev) ==
    IF ~guard(s, "REACTION_REMOVE") THEN s
    ELSE LET channel == ChannelMessages(s, ev.channel_id)
         IN [s EXCEPT !.messages =
                Put(@, ev.channel_id,
                    IF Has(channel, ev.message_id)
                    THEN [channel EXCEPT ![ev.message_id].reactions =
                            RemoveReaction(@, ev.emoji, ev.user_id,
                                           current_user(s))]
                    ELSE channel)]

ReactionRemoveAll(s, ev) ==
    IF ~guard(s, "REACTION_REMOVE_ALL") THEN s
    ELSE LET channel == ChannelMessages(s, ev.channel_id)
         IN [s EXCEPT !.messages =
                Put(@, ev.channel_id,
                    IF Has(channel, ev.message_id)
                    THEN [channel EXCEPT ![ev.message_id].reactions = <<>>]
                    ELSE channel)]

\* for status in self.guilds.values() { ... }
RECURSIVE ReadyGuilds(_, _)
ReadyGuilds(s, statuses) ==
    IF statuses = {} THEN s
    ELSE LET st == CHOOSE x \in statuses : TRUE
         IN ReadyGuilds(IF st.status = "Offline"
                        THEN unavailable_guild(s, st.guild.id)
                        ELSE cache_guild(s, st.guild),
                        statuses \ {st})

\* Ready::update marking every guild of the payload unavailable.
ReadyMarksEveryGuild(s, ev) ==
    IF ~guard(s, "READY") THEN s
    ELSE ReadyGuilds(cache_current_user(s, ev.user),
                     {[st EXCEPT !.status = "Offline"] : st \in ev.guilds})

Ready(s, ev) ==
    IF ~guard(s, "READY") THEN s
    ELSE ReadyGuilds(cache_current_user(s, ev.user), ev.guilds)

RoleCreate(s, ev) ==
    IF ~guard(s, "ROLE_CREATE") THEN s
    ELSE [s EXCEPT !.roles = upsert_guild_item(@, ev.guild_id, ev.role, ev.role)]

RoleDelete(s, ev) ==
    IF ~guard(s, "ROLE_DELETE") THEN s ELSE delete_role(s, ev.role_id)

RoleUpdate(s, ev) ==
    IF ~guard(s, "ROLE_UPDATE") THEN s ELSE cache_role(s, ev.guild_id, ev.role)

\* UnavailableGuild::update without the removal of the guild row.
UnavailableGuildKeepsRow(s, ev) ==
    IF ~guard(s, "UNAVAILABLE_GUILD") THEN s
    ELSE [s EXCEPT !.unavailable_guilds = @ \cup {ev.id}]

UnavailableGuild(s, ev) ==
    IF ~guard(s, "UNAVAILABLE_GUILD") THEN s
    ELSE [s EXCEPT !.guilds = Del(@, ev.id),
                   !.unavailable_guilds = @ \cup {ev.id}]

UserUpdate(s, user_id) ==
    IF ~guard(s, "USER_UPDATE") THEN s ELSE cache_current_user(s, user_id)

VoiceServerUpdate(s) == s

VoiceStateUpdate(s, vs) ==
    IF ~guard(s, "VOICE_STATE_UPDATE") THEN s ELSE cache_voice_state(s, vs)

----------------------------------------------------------------------------
(* The events the gateway delivers: small sets of payloads per kind.       *)

GuildChannel(id, guild_id, kind) ==
    [variant |-> "Guild", id |-> id, guild_id |-> guild_id, kind |-> kind,
     last_pin_timestamp |-> None]

\* Channel ids are global: channel 1 may be reported under either guild.
GuildChannelPayloads ==
    {GuildChannel(1, Some(g), "Text") : g \in GuildIds}
        \cup {GuildChannel(2, Some(1), "Voice"), GuildChannel(2, None, "Text")}

ChannelPayloads ==
    GuildChannelPayloads
        \cup {[variant |-> "Private", id |-> 2, last_pin_timestamp |-> None],
              [variant |-> "Group", id |-> 2, last_pin_timestamp |-> None]}

GuildPayload(g, contents) ==
    [id |-> g, name |-> "test", owner_id |-> 1,
     max_presences |-> None, premium_subscription_count |-> None,
     channels |-> contents.channels, emojis |-> contents.emojis,
     roles |-> contents.roles, members |-> contents.users,
     presences |-> contents.users, voice_states |-> contents.users]

GuildContents ==
    {[channels |-> {}, emojis |-> {}, roles |-> {}, users |-> {}],
     [channels |-> {1}, emojis |-> EmojiIds, roles |-> RoleIds, users |-> {1}]}

GuildPayloads == {GuildPayload(g, c) : g \in GuildIds, c \in GuildContents}

PartialGuildPayloads ==
    {[id |-> 1, name |-> "test2222", owner_id |-> 2,
      max_presences |-> mp, premium_subscription_count |-> mp] :
        mp \in {None, Some(7)}}

MemberPayloads ==
    {[guild_id |-> g, user |-> u, nick |-> None] : g \in GuildIds, u \in UserIds}

MemberUpdatePayloads ==
    {[guild_id |-> 1, user |-> u, nick |-> Some("nick")] : u \in UserIds}

MemberChunkPayloads ==
    {[guild_id |-> 2, members |-> ms] :
        ms \in {{}, {[user |-> u, nick |-> None] : u \in UserIds}}}

MemberRemovePayloads ==
    {[guild_id |-> g, user |-> u] : g \in GuildIds, u \in UserIds}

\* Messages written in a guild carry the guild id and the author's member.
GuildMessagePayloads ==
    {[id |-> 10, channel_id |-> 1, author |-> u, content |-> "ping",
      guild_id |-> Some(g), member |-> Some([nick |-> None]),
      reactions |-> <<>>] : g \in GuildIds, u \in {1}}

\* Messages of a private channel carry neither.
PrivateMessagePayloads ==
    {[id |-> m, channel_id |-> 2, author |-> 1, content |-> "ping",
      guild_id |-> None, member |-> None, reactions |-> <<>>] :
        m \in MessageIds}

ReactionPayloads ==
    {[channel_id |-> 2, message_id |-> 10, emoji |-> e, user_id |-> u] :
        e \in ReactionEmojis, u \in UserIds}

VoiceStatePayloads ==
    {[guild_id |-> Some(g), user_id |-> 1, channel_id |-> Some(1)] :
        g \in GuildIds}
        \cup {[guild_id |-> None, user_id |-> 1, channel_id |-> None]}

ReadyPayloads ==
    {[user |-> 1,
      guilds |-> {[status |-> "Offline", guild |-> [id |-> 1]],
                  [status |-> "Online",
                   guild |-> GuildPayload(2, c)]}] : c \in GuildContents}

----------------------------------------------------------------------------
(* The state machine: InMemoryCache::update applies one event at a time.   *)

\* What the handlers read before they write: a user's guild set ...
GuildSetOf(s, u) == IF Has(s.users, u) THEN s.users[u] ELSE {}

\* ... and the reactions of the message a reaction event is about ({} of sequences
\* when the message is not cached).
ReactionsOf(s, ev) ==
    IF Has(s.messages, ev.channel_id) /\ Has(s.messages[ev.channel_id], ev.message_id)
    THEN {s.messages[ev.channel_id][ev.message_id].reactions}
    ELSE {}


cachevars == <<cache, last, budget, writer>>

\* No update() call is in progress.
Idle == [pc |-> 0]

hdrvars == <<response, parsed>>
clustervars == <<builder, calls, outcome>>
lockvars == <<locks, producers>>
noncachevars ==
    <<buckets, heap, tasks, tickets, global, signalled, now, global_until,
      hdrvars, clustervars, lockvars>>

vars == <<cachevars, noncachevars>>

Observe(kind, ev, before, after) ==
    /\ writer = Idle
    /\ budget > 0
    /\ cache' = after
    /\ last' = [kind |-> kind, ev |-> ev, before |-> before]
    /\ budget' = budget - 1
    /\ UNCHANGED <<writer, noncachevars>>

Apply(kind, ev, after) == Observe(kind, ev, None, after)

OnChannelCreate ==
    \E c \in ChannelPayloads : Apply("ChannelCreate", c, ChannelCreate(cache, c))
\* What ChannelDelete and ChannelUpdate find: the row cached under the
\* channel's id, and whether the event repeats the one before it.
ChannelSaw(s, kind, c) ==
    [row |-> IF Has(s.channels_guild, c.id) THEN Some(s.channels_guild[c.id])
             ELSE None,
     repeat |-> last.kind = kind /\ last.ev = c]
OnChannelDelete ==
    \E c \in ChannelPayloads :
        Observe("ChannelDelete", c, ChannelSaw(cache, "ChannelDelete", c),
                ChannelDelete(cache, c))
OnChannelPinsUpdate ==
    \E c \in ChannelIds :
        LET ev == [channel_id |-> c, last_pin_timestamp |-> Some("t")]
        IN Apply("ChannelPinsUpdate", ev, ChannelPinsUpdate(cache, ev))
OnChannelUpdate ==
    \E c \in GuildChannelPayloads :
        Observe("ChannelUpdate", c, ChannelSaw(cache, "ChannelUpdate", c),
                ChannelUpdate(cache, c))
OnGuildCreate ==
    \E g \in GuildPayloads : Apply("GuildCreate", g, GuildCreate(cache, g))
OnGuildDelete ==
    \E g \in GuildIds : Apply("GuildDelete", [id |-> g], GuildDelete(cache, g))
OnGuildEmojisUpdate ==
    \E g \in GuildIds, es \in SUBSET EmojiIds :
        LET ev == [guild_id |-> g, emojis |-> es]
        IN Apply("GuildEmojisUpdate", ev, GuildEmojisUpdate(cache, ev))
OnGuildUpdate ==
    \E pg \in PartialGuildPayloads :
        Apply("GuildUpdate", pg, GuildUpdate(cache, pg))
OnMemberAdd ==
    \E m \in MemberPayloads : Apply("MemberAdd", m, MemberAdd(cache, m))
OnMemberChunk ==
    \E ev \in MemberChunkPayloads :
        Apply("MemberChunk", ev, MemberChunk(cache, ev))
OnMemberRemove ==
    \E ev \in MemberRemovePayloads :
        Observe("MemberRemove", ev, GuildSetOf(cache, ev.user),
                MemberRemove(cache, ev))
OnMemberUpdate ==
    \E ev \in MemberUpdatePayloads :
        Apply("MemberUpdate", ev, MemberUpdate(cache, ev))
\* What a MessageCreate finds: the ids held for its channel and the row of
\* its author.
MessageCreateSaw(s, msg) ==
    [ids |-> DOMAIN ChannelMessages(s, msg.channel_id),
     author |-> IF Has(s.users, msg.author) THEN Some(s.users[msg.author])
                ELSE None]
OnGuildMessageCreate ==
    \E msg \in GuildMessagePayloads :
        Observe("MessageCreate", msg, MessageCreateSaw(cache, msg),
                MessageCreate(cache, msg))
OnMessageCreate ==
    \E msg \in PrivateMessagePayloads :
        Observe("MessageCreate", msg, MessageCreateSaw(cache, msg),
                MessageCreate(cache, msg))
OnMessageDelete ==
    \E m \in MessageIds :
        LET ev == [channel_id |-> 2, id |-> m]
        IN Apply("MessageDelete", ev, MessageDelete(cache, ev))
OnMessageDeleteBulk ==
    LET ev == [channel_id |-> 2, ids |-> {10, 20}]
    IN Apply("MessageDeleteBulk", ev, MessageDeleteBulk(cache, ev))
OnMessageUpdate ==
    \E content \in {None, Some("pong")} :
        LET ev == [channel_id |-> 2, id |-> 10, content |-> content]
        IN Apply("MessageUpdate", ev, MessageUpdate(cache, ev))
OnPresenceUpdate ==
    \E g \in GuildIds :
        LET ev == [guild_id |-> g, user |-> 1, status |-> "idle"]
        IN Apply("PresenceUpdate", ev, PresenceUpdate(cache, ev))
OnReactionAdd ==
    \E ev \in ReactionPayloads :
        Observe("ReactionAdd", ev, ReactionsOf(cache, ev), ReactionAdd(cache, ev))
OnReactionRemove ==
    \E ev \in ReactionPayloads :
        Observe("ReactionRemove", ev, ReactionsOf(cache, ev),
                ReactionRemove(cache, ev))
OnReactionRemoveAll ==
    LET ev == [channel_id |-> 2, message_id |-> 10]
    IN Apply("ReactionRemoveAll", ev, ReactionRemoveAll(cache, ev))
OnReady ==
    \E ev \in ReadyPayloads : Apply("Ready", ev, Ready(cache, ev))
OnRoleCreate ==
    \E g \in GuildIds, r \in RoleIds :
        LET ev == [guild_id |-> g, role |-> r]
        IN Apply("RoleCreate", ev, RoleCreate(cache, ev))
OnRoleDelete ==
    \E g \in GuildIds, r \in RoleIds :
        LET ev == [guild_id |-> g, role_id |-> r]
        IN Apply("RoleDelete", ev, RoleDelete(cache, ev))
OnRoleUpdate ==
    \E g \in GuildIds, r \in RoleIds :
        LET ev == [guild_id |-> g, role |-> r]
        IN Apply("RoleUpdate", ev, RoleUpdate(cache, ev))
OnUnavailableGuild ==
    \E g \in GuildIds :
        Observe("UnavailableGuild", [id |-> g],
                IF Has(cache.guilds, g) THEN Some(cache.guilds[g]) ELSE None,
                UnavailableGuild(cache, [id |-> g]))
OnUserUpdate ==
    \E u \in UserIds : Apply("UserUpdate", [id |-> u], UserUpdate(cache, u))
OnVoiceStateUpdate ==
    \E vs \in VoiceStatePayloads :
        Apply("VoiceStateUpdate", vs, VoiceStateUpdate(cache, vs))

\* InMemoryRatelimiter::new(): no bucket, the global latch clear.
RatelimiterNew ==
    /\ buckets = EmptyMap
    /\ heap = <<>>
    /\ tasks = <<>>
    /\ tickets = <<>>
    /\ global = [locked |-> FALSE, mutex |-> None]
    /\ signalled = <<>>
    /\ now = 0
    /\ global_until = 0
    /\ response = EmptyMap
    /\ parsed = None
    /\ builder = None
    /\ calls = <<>>
    /\ outcome = None
    /\ locks = EmptyMap
    /\ producers = <<>>

\* InMemoryCache::new(): every event type enabled.
Init ==
    /\ cache = EmptyCache(EventTypes, 1)
    /\ last = [kind |-> "none"]
    /\ budget = MaxEvents
    /\ writer = Idle
    /\ RatelimiterNew

\* The events that touch the guild-scoped tables and the users.
Next ==
    \/ OnChannelCreate \/ OnChannelDelete \/ OnChannelPinsUpdate
    \/ OnChannelUpdate
    \/ OnGuildCreate \/ OnGuildDelete \/ OnGuildEmojisUpdate \/ OnGuildUpdate
    \/ OnMemberAdd \/ OnMemberChunk \/ OnMemberRemove \/ OnMemberUpdate
    \/ OnGuildMessageCreate \/ OnPresenceUpdate
    \/ OnReady \/ OnRoleCreate \/ OnRoleDelete \/ OnRoleUpdate
    \/ OnUnavailableGuild \/ OnUserUpdate \/ OnVoiceStateUpdate

Spec == Init /\ [][Next]_vars

\* InMemoryCache::builder().message_cache_size(n).build()
InitMsg ==
    /\ \E n \in 1..MaxCacheSize : cache = EmptyCache(EventTypes, n)
    /\ last = [kind |-> "none"]
    /\ budget = MaxMsgEvents
    /\ writer = Idle
    /\ RatelimiterNew

\* The events of one private channel: its messages and their reactions.
NextMsg ==
    \/ OnMessageCreate \/ OnMessageDelete \/ OnMessageDeleteBulk
    \/ OnMessageUpdate
    \/ OnReactionAdd \/ OnReactionRemove \/ OnReactionRemoveAll
    \/ OnUserUpdate

SpecMsg == InitMsg /\ [][NextMsg]_vars

----------------------------------------------------------------------------
(* Caches built with some event types switched off.                        *)

OnVoiceServerUpdate ==
    Apply("VoiceServerUpdate", [guild_id |-> 1], VoiceServerUpdate(cache))

\* The configurations: four switch off one group of event types each, so
\* that every type is off in one of them while the types that fill the
\* tables it reads are on; the fifth leaves only MESSAGE_CREATE on.
DisabledGroups ==
    {EventTypes \ {"MESSAGE_CREATE"},
     {"CHANNEL_CREATE", "GUILD_DELETE", "MEMBER_REMOVE", "MESSAGE_DELETE",
      "REACTION_REMOVE", "ROLE_DELETE", "USER_UPDATE"},
     {"CHANNEL_DELETE", "GUILD_CREATE", "MEMBER_UPDATE", "MESSAGE_DELETE_BULK",
      "REACTION_REMOVE_ALL", "ROLE_CREATE", "VOICE_STATE_UPDATE"},
     {"CHANNEL_UPDATE", "GUILD_EMOJIS_UPDATE", "MEMBER_ADD", "MESSAGE_UPDATE",
      "REACTION_ADD", "READY", "UNAVAILABLE_GUILD"},
     {"CHANNEL_PINS_UPDATE", "GUILD_UPDATE", "MEMBER_CHUNK", "MESSAGE_CREATE",
      "PRESENCE_UPDATE", "ROLE_UPDATE", "VOICE_SERVER_UPDATE"}}

\* InMemoryCache::builder().event_types(types).build()
InitFilter ==
    /\ \E off \in DisabledGroups : cache = EmptyCache(EventTypes \ off, 1)
    /\ last = [kind |-> "none"]
    /\ budget = MaxFilterEvents
    /\ writer = Idle
    /\ RatelimiterNew

\* Every event kind of the dispatch table.
NextFilter ==
    \/ OnChannelCreate \/ OnChannelDelete \/ OnChannelPinsUpdate
    \/ OnChannelUpdate
    \/ OnGuildCreate \/ OnGuildDelete \/ OnGuildEmojisUpdate \/ OnGuildUpdate
    \/ OnMemberAdd \/ OnMemberChunk \/ OnMemberRemove \/ OnMemberUpdate
    \/ OnGuildMessageCreate \/ OnMessageCreate \/ OnMessageDelete
    \/ OnMessageDeleteBulk \/ OnMessageUpdate \/ OnPresenceUpdate
    \/ OnReactionAdd \/ OnReactionRemove \/ OnReactionRemoveAll
    \/ OnReady \/ OnRoleCreate \/ OnRoleDelete \/ OnRoleUpdate
    \/ OnUnavailableGuild \/ OnUserUpdate \/ OnVoiceServerUpdate
    \/ OnVoiceStateUpdate

SpecFilter == InitFilter /\ [][NextFilter]_vars

----------------------------------------------------------------------------
(* update() running beside readers.  The tables are separate DashMaps and  *)
(* a handler takes no lock across them: every map operation of a handler   *)
(* is a step of its own, and a query may run between any two of them.      *)
(* GuildDelete and MemberAdd are taken apart here; `writer` is the call    *)
(* in progress, with the cache as it was when the call began.              *)

\* GuildDelete::update removing the guild row after the rows it owns.
GuildDeleteProgramGuildLast ==
    <<"guild_channels", "channels_guild",
      "guild_emojis", "emojis",
      "guild_roles", "roles",
      "voice_state_guilds",
      "guild_members", "members",
      "guild_presences", "presences",
      "guilds">>

\* GuildDelete::update in the order of its statements: a plain map is
\* removed from in one step; an index is followed by the container whose
\* rows are removed one id at a time (`for id in ids`).
GuildDeleteProgram ==
    <<"guilds",
      "guild_channels", "channels_guild",
      "guild_emojis", "emojis",
      "guild_roles", "roles",
      "voice_state_guilds",
      "guild_members", "members",
      "guild_presences", "presences">>

IndexMaps ==
    {"guild_channels", "guild_emojis", "guild_roles", "guild_members",
     "guild_presences"}
\* The containers keyed by (guild id, user id).
UserContainers == {"members", "presences"}
Containers == {"channels_guild", "emojis", "roles"} \cup UserContainers

\* The writer after statement number i of the program.
Advance(w, program) ==
    IF w.pc = Len(program)
    THEN Idle
    ELSE [w EXCEPT !.pc = @ + 1]

\* One step of GuildDelete::update for the writer w on the cache s: the
\* set of the <<cache, writer>> pairs the step can lead to.
GuildDeleteStep(s, w) ==
    LET id == w.ev.id
        stmt == GuildDeleteProgram[w.pc]
        next == Advance(w, GuildDeleteProgram)
    IN IF stmt \in IndexMaps
       THEN {<<[s EXCEPT ![stmt] = Del(@, id)],
               [next EXCEPT !.ids = IF Has(s[stmt], id) THEN s[stmt][id] ELSE {}]>>}
       ELSE IF stmt \in Containers
       THEN IF w.ids = {}
            THEN {<<s, next>>}
            ELSE {<<[s EXCEPT ![stmt] =
                        Del(@, IF stmt \in UserContainers THEN <<id, x>> ELSE x)],
                    [w EXCEPT !.ids = @ \ {x}]>> : x \in w.ids}
       ELSE {<<[s EXCEPT ![stmt] = Del(@, id)], next>>}

\* MemberAdd::update: cache_member, then the insert into guild_members.
MemberAddProgram == <<"cache_member", "guild_members">>

MemberAddStep(s, w) ==
    LET member == w.ev
        next == Advance(w, MemberAddProgram)
    IN IF MemberAddProgram[w.pc] = "cache_member"
       THEN {<<cache_member(s, member.guild_id, member), next>>}
       ELSE {<<[s EXCEPT !.guild_members =
                   IndexInsert(@, member.guild_id, member.user)], next>>}

\* The handler as a whole, for the event the writer is applying.
Whole(w) ==
    IF w.kind = "GuildDelete" THEN GuildDelete(w.before, w.ev.id)
    ELSE MemberAdd(w.before, w.ev)

\* update(event) is called: the guard is evaluated; an ignored event ends
\* the call at once.
Begin(kind, ev, event_type) ==
    /\ writer = Idle
    /\ budget > 0
    /\ budget' = budget - 1
    /\ last' = [kind |-> kind, ev |-> ev, before |-> None]
    /\ writer' = IF guard(cache, event_type)
                 THEN [pc |-> 1, kind |-> kind, ev |-> ev, ids |-> {},
                       before |-> cache]
                 ELSE Idle
    /\ UNCHANGED <<cache, noncachevars>>

BeginGuildDelete ==
    \E g \in GuildIds : Begin("GuildDelete", [id |-> g], "GUILD_DELETE")

BeginMemberAdd ==
    \E m \in MemberPayloads : Begin("MemberAdd", m, "MEMBER_ADD")

StepGuildDelete ==
    /\ writer # Idle
    /\ writer.kind = "GuildDelete"
    /\ \E r \in GuildDeleteStep(cache, writer) : cache' = r[1] /\ writer' = r[2]
    /\ UNCHANGED <<last, budget, noncachevars>>

StepMemberAdd ==
    /\ writer # Idle
    /\ writer.kind = "MemberAdd"
    /\ \E r \in MemberAddStep(cache, writer) : cache' = r[1] /\ writer' = r[2]
    /\ UNCHANGED <<last, budget, noncachevars>>

InitConc ==
    /\ cache = EmptyCache(EventTypes, 1)
    /\ last = [kind |-> "none"]
    /\ budget = MaxConcEvents
    /\ writer = Idle
    /\ RatelimiterNew

\* Guilds are created and roles reported by whole events; guilds are deleted
\* and members added step by step.
NextConc ==
    \/ OnGuildCreate \/ OnRoleUpdate \/ OnChannelCreate
    \/ BeginGuildDelete \/ StepGuildDelete
    \/ BeginMemberAdd \/ StepMemberAdd

SpecConc == InitConc /\ [][NextConc]_vars

----------------------------------------------------------------------------
(* MemberRemove::update beside other update() calls.  MemberRemove is      *)
(* taken apart into its four map operations; a MemberAdd or a guild        *)
(* MessageCreate of another task runs between any two of them.  Each of    *)
(* those touches `users` in one operation under the lock of the row        *)
(* (cache_user), so that running it whole loses no interleaving on         *)
(* `users`.                                                                *)

MemberRemoveProgram == <<"members", "guild_members", "users", "remove_if">>

\* MemberRemove::update with a plain remove in place of remove_if: the user
\* row goes whatever its guild set holds by then.
MemberRemoveStepUnchecked(s, w) ==
    LET ev == w.ev
        stmt == MemberRemoveProgram[w.pc]
        next == Advance(w, MemberRemoveProgram)
    IN IF stmt = "members"
       THEN {<<[s EXCEPT !.members = Del(@, <<ev.guild_id, ev.user>>)], next>>}
       ELSE IF stmt = "guild_members"
       THEN {<<[s EXCEPT !.guild_members =
                   IndexRemove(@, ev.guild_id, ev.user)], next>>}
       ELSE IF stmt = "users"
       THEN IF Has(s.users, ev.user)
            THEN {<<[s EXCEPT !.users[ev.user] = @ \ {ev.guild_id}], next>>}
            ELSE {<<s, Idle>>}
       ELSE {<<[s EXCEPT !.users = Del(@, ev.user)], next>>}

\* One step of MemberRemove::update for the writer w on the cache s.  The
\* row lock of `users` is dropped between the third and the fourth step;
\* remove_if tests the guild set and removes the row under one lock.
MemberRemoveStep(s, w) ==
    LET ev == w.ev
        stmt == MemberRemoveProgram[w.pc]
        next == Advance(w, MemberRemoveProgram)
    IN IF stmt = "members"
       THEN {<<[s EXCEPT !.members = Del(@, <<ev.guild_id, ev.user>>)], next>>}
       ELSE IF stmt = "guild_members"
       THEN {<<[s EXCEPT !.guild_members =
                   IndexRemove(@, ev.guild_id, ev.user)], next>>}
       ELSE IF stmt = "users"
       THEN IF Has(s.users, ev.user)
            THEN {<<[s EXCEPT !.users[ev.user] = @ \ {ev.guild_id}], next>>}
            ELSE {<<s, Idle>>}
       ELSE IF Has(s.users, ev.user) /\ s.users[ev.user] = {}
            THEN {<<[s EXCEPT !.users = Del(@, ev.user)], next>>}
            ELSE {<<s, next>>}

BeginMemberRemove ==
    \E ev \in MemberRemovePayloads : Begin("MemberRemove", ev, "MEMBER_REMOVE")

StepMemberRemove ==
    /\ writer # Idle
    /\ writer.kind = "MemberRemove"
    /\ \E r \in MemberRemoveStep(cache, writer) : cache' = r[1] /\ writer' = r[2]
    /\ UNCHANGED <<last, budget, noncachevars>>

\* What a call of another task finds of the MemberRemove in progress.
RemoveInProgress ==
    IF writer = Idle THEN None
    ELSE Some([stmt |-> MemberRemoveProgram[writer.pc], ev |-> writer.ev])

\* update(ev) of another task, begun and ended between two steps of the
\* writer.
Beside(kind, ev, after) ==
    /\ budget > 0
    /\ cache' = after
    /\ last' = [kind |-> kind, ev |-> ev, before |-> RemoveInProgress]
    /\ budget' = budget - 1
    /\ UNCHANGED <<writer, noncachevars>>

MemberAddBeside ==
    \E m \in MemberPayloads : Beside("MemberAdd", m, MemberAdd(cache, m))

MessageCreateBeside ==
    \E msg \in GuildMessagePayloads :
        Beside("MessageCreate", msg, MessageCreate(cache, msg))

InitRemove ==
    /\ cache = EmptyCache(EventTypes, 1)
    /\ last = [kind |-> "none"]
    /\ budget = MaxRemoveEvents
    /\ writer = Idle
    /\ RatelimiterNew

NextRemove ==
    \/ MemberAddBeside \/ MessageCreateBeside
    \/ BeginMemberRemove \/ StepMemberRemove

SpecRemove == InitRemove /\ [][NextRemove]_vars

----------------------------------------------------------------------------
(* The in-memory rate limiter.  A Bucket object lives at an address of     *)
(* `heap`; the registry `buckets` maps a path to the address of its        *)
(* bucket.  The requesters and the bucket workers are tasks of a           *)
(* work-stealing pool: every step below may interleave with any other.     *)

Paths == {"ChannelsId", "GuildsId"}

\* The classified response headers a requester reports back.
Headers ==
    {[kind |-> "None"],
     [kind |-> "GlobalLimited", reset_after |-> 1],
     [kind |-> "Present", global |-> FALSE, remaining |-> 0, reset_after |-> 1],
     [kind |-> "Present", global |-> FALSE, remaining |-> 1, reset_after |-> 1],
     [kind |-> "Present", global |-> TRUE, remaining |-> 1, reset_after |-> 1]}

\* Bucket::new(path): no limits known yet, an empty queue.
NewBucket(path) ==
    [path |-> path, queue |-> <<>>, remaining |-> None, reset_after |-> 0]

\* BucketQueueTask::new(bucket, buckets, global, path).  `reported` is not
\* a field of the task: it remembers the headers last reported to this
\* worker and when.
NewTask ==
    [pc |-> "next", ticket |-> 0, wake |-> 0, headers |-> None,
     reported |-> None]

\* GlobalLockPair::lock / unlock / is_locked: the flag alone.
lock(g) == [g EXCEPT !.locked = TRUE]
unlock(g) == [g EXCEPT !.locked = FALSE]
is_locked(g) == g.locked

\* entry() that forgets the push into an occupied entry.
EntryDropsOnOccupied(path, tx) ==
    IF Has(buckets, path)
    THEN UNCHANGED <<heap, buckets>>
    ELSE /\ heap' = Append(heap, [NewBucket(path) EXCEPT !.queue = <<tx>>])
         /\ buckets' = Put(buckets, path, Len(heap) + 1)

\* InMemoryRatelimiter::entry, under the registry mutex: push the ticket on
\* the queue of the bucket registered for the path, or register a new bucket
\* holding it.
entry(path, tx) ==
    IF Has(buckets, path)
    THEN /\ heap' = [heap EXCEPT ![buckets[path]].queue = Append(@, tx)]
         /\ UNCHANGED buckets
    ELSE /\ heap' = Append(heap, [NewBucket(path) EXCEPT !.queue = <<tx>>])
         /\ buckets' = Put(buckets, path, Len(heap) + 1)

\* ticket() that spawns a worker whether or not it created the entry.
TicketAlwaysSpawns(path) ==
    /\ Len(tickets) < MaxTickets
    /\ entry(path, Len(tickets) + 1)
    /\ tickets' = Append(tickets, [path |-> path, state |-> "waiting",
                                   bucket |-> buckets'[path]])
    /\ tasks' = Append(tasks, NewTask)
    /\ UNCHANGED <<cachevars, hdrvars, clustervars, lockvars, global, signalled,
                   now, global_until>>

\* ticket() that takes every entry for a fresh one: a new bucket replaces
\* the registered one and a worker is spawned for it.
TicketAlwaysFresh(path) ==
    /\ Len(tickets) < MaxTickets
    /\ heap' = Append(heap, [NewBucket(path) EXCEPT
                                 !.queue = <<Len(tickets) + 1>>])
    /\ buckets' = Put(buckets, path, Len(heap) + 1)
    /\ tickets' = Append(tickets, [path |-> path, state |-> "waiting",
                                   bucket |-> Len(heap) + 1])
    /\ tasks' = Append(tasks, NewTask)
    /\ UNCHANGED <<cachevars, hdrvars, clustervars, lockvars, global, signalled, now,
                   global_until>>

\* ticket() that never spawns a worker.
TicketWithoutWorker(path) ==
    /\ Len(tickets) < MaxTickets
    /\ entry(path, Len(tickets) + 1)
    /\ tickets' = Append(tickets, [path |-> path, state |-> "waiting",
                                   bucket |-> buckets'[path]])
    /\ UNCHANGED <<cachevars, hdrvars, clustervars, lockvars, tasks, global, signalled,
                   now, global_until>>

\* InMemoryRatelimiter::ticket: a worker is spawned only for a fresh bucket.
\* The ticket remembers the bucket entry() returned for it.
ticket(path) ==
    /\ Len(tickets) < MaxTickets
    /\ entry(path, Len(tickets) + 1)
    /\ tickets' = Append(tickets, [path |-> path, state |-> "waiting",
                                   bucket |-> buckets'[path]])
    /\ tasks' = IF Has(buckets, path) THEN tasks ELSE Append(tasks, NewTask)
    /\ UNCHANGED <<cachevars, hdrvars, clustervars, lockvars, global, signalled, now, global_until>>

\* The requester drops its TicketReceiver before the ticket is served.
DropReceiver(t) ==
    /\ tickets[t].state = "waiting"
    /\ tickets' = [tickets EXCEPT ![t].state = "dropped"]
    /\ UNCHANGED <<cachevars, hdrvars, clustervars, lockvars, buckets, heap, tasks, global, signalled, now,
                   global_until>>

\* The worker of bucket b moves to pc, changing nothing else of its task.
Goto(b, pc) == tasks' = [tasks EXCEPT ![b].pc = pc]

\* wait_if_needed: with no request remaining the worker sleeps until the
\* bucket resets.
WaitIfNeeded(b) ==
    /\ tasks[b].pc = "next"
    /\ heap[b].remaining = Some(0)
    /\ tasks' = [tasks EXCEPT ![b].pc = "wait",
                              ![b].wake = now + heap[b].reset_after]
    /\ UNCHANGED <<cachevars, hdrvars, clustervars, lockvars, buckets, heap, tickets, global, signalled, now,
                   global_until>>

WaitDone(b) ==
    /\ tasks[b].pc = "wait"
    /\ now >= tasks[b].wake
    /\ heap' = [heap EXCEPT ![b].remaining = None]
    /\ Goto(b, "next")
    /\ UNCHANGED <<cachevars, hdrvars, clustervars, lockvars, buckets, tickets, global, signalled, now,
                   global_until>>

\* Step 1: the worker pops the oldest ticket of its queue.
Pop(b) ==
    /\ tasks[b].pc = "next"
    /\ heap[b].remaining # Some(0)
    /\ heap[b].queue # <<>>
    /\ heap' = [heap EXCEPT ![b].queue = Tail(@)]
    /\ tasks' = [tasks EXCEPT ![b].pc = "check_global",
                              ![b].ticket = Head(heap[b].queue)]
    /\ UNCHANGED <<cachevars, hdrvars, clustervars, lockvars, buckets, tickets, global, signalled, now,
                   global_until>>

\* The queue has drained: the worker leaves its loop.
QueueDrained(b) ==
    /\ tasks[b].pc = "next"
    /\ heap[b].remaining # Some(0)
    /\ heap[b].queue = <<>>
    /\ Goto(b, "exiting")
    /\ UNCHANGED <<cachevars, hdrvars, clustervars, lockvars, buckets, heap, tickets, global, signalled, now,
                   global_until>>

\* ... and removes the entry of its path from the registry, under the mutex.
Exit(b) ==
    /\ tasks[b].pc = "exiting"
    /\ buckets' = Del(buckets, heap[b].path)
    /\ Goto(b, "done")
    /\ UNCHANGED <<cachevars, hdrvars, clustervars, lockvars, heap, tickets, global, signalled, now,
                   global_until>>

\* Step 2: the worker reads the flag of the global latch ...
CheckGlobal(b) ==
    /\ tasks[b].pc = "check_global"
    /\ Goto(b, IF is_locked(global) THEN "await_global" ELSE "signal")
    /\ UNCHANGED <<cachevars, hdrvars, clustervars, lockvars, buckets, heap, tickets, global, signalled, now,
                   global_until>>

\* ... and, having found it set, waits for a guard of the mutex and drops
\* the guard at once.
AwaitGlobal(b) ==
    /\ tasks[b].pc = "await_global"
    /\ global.mutex = None
    /\ Goto(b, "signal")
    /\ UNCHANGED <<cachevars, hdrvars, clustervars, lockvars, buckets, heap, tickets, global, signalled, now,
                   global_until>>

\* Step 3: the worker signals the ticket; a ticket whose receiver is gone is
\* passed over.
Signal(b) ==
    /\ tasks[b].pc = "signal"
    /\ LET t == tasks[b].ticket
       IN IF tickets[t].state = "dropped"
          THEN /\ tickets' = [tickets EXCEPT ![t].state = "passed"]
               /\ Goto(b, "next")
               /\ UNCHANGED signalled
          ELSE /\ tickets' = [tickets EXCEPT ![t].state = "signalled"]
               /\ signalled' = Append(signalled, t)
               /\ Goto(b, "await_headers")
    /\ UNCHANGED <<cachevars, hdrvars, clustervars, lockvars, buckets, heap, global, now, global_until>>

\* Bucket::update with the limits of a Present response.
UpdateBucket(bucket, h) ==
    IF h.kind = "Present"
    THEN [bucket EXCEPT !.remaining = Some(h.remaining),
                        !.reset_after = h.reset_after]
    ELSE bucket

\* Step 4: the requester reports the headers of its response.  A global
\* limit sets the flag of the latch (GlobalLockPair::lock).
Report(b, h) ==
    /\ tasks[b].pc = "await_headers"
    /\ tickets' = [tickets EXCEPT ![tasks[b].ticket].state = "reported"]
    /\ IF h.kind = "GlobalLimited" \/ (h.kind = "Present" /\ h.global)
       THEN /\ global' = lock(global)
            /\ global_until' = Max({global_until, now + h.reset_after})
            /\ tasks' = [tasks EXCEPT
                            ![b].pc = "lock_global",
                            ![b].headers = Some(h),
                            ![b].reported = Some([headers |-> h, at |-> now])]
            /\ UNCHANGED heap
       ELSE /\ heap' = [heap EXCEPT ![b] = UpdateBucket(@, h)]
            /\ tasks' = [tasks EXCEPT
                            ![b].pc = "next",
                            ![b].reported = Some([headers |-> h, at |-> now])]
            /\ UNCHANGED <<global, global_until>>
    /\ UNCHANGED <<cachevars, hdrvars, clustervars, lockvars, buckets, signalled, now>>

\* The requester went away without reporting: the worker gives up waiting.
HeadersTimeout(b) ==
    /\ tasks[b].pc = "await_headers"
    /\ Goto(b, "next")
    /\ UNCHANGED <<cachevars, hdrvars, clustervars, lockvars, buckets, heap, tickets, global, signalled, now,
                   global_until>>

\* The worker imposing the cooldown takes the mutex and sleeps ...
LockGlobal(b) ==
    /\ tasks[b].pc = "lock_global"
    /\ global.mutex = None
    /\ global' = [global EXCEPT !.mutex = Some(b)]
    /\ tasks' = [tasks EXCEPT
                    ![b].pc = "global_sleep",
                    ![b].wake = now + UnwrapOr(tasks[b].headers,
                                               [reset_after |-> 0]).reset_after]
    /\ UNCHANGED <<cachevars, hdrvars, clustervars, lockvars, buckets, heap, tickets, signalled, now,
                   global_until>>

\* ... then clears the flag (GlobalLockPair::unlock) and drops the guard.
UnlockGlobal(b) ==
    /\ tasks[b].pc = "global_sleep"
    /\ now >= tasks[b].wake
    /\ global' = [unlock(global) EXCEPT !.mutex = None]
    /\ heap' = [heap EXCEPT
                   ![b] = UpdateBucket(@, UnwrapOr(tasks[b].headers,
                                                   [kind |-> "None"]))]
    /\ tasks' = [tasks EXCEPT ![b].pc = "next", ![b].headers = None]
    /\ UNCHANGED <<cachevars, hdrvars, clustervars, lockvars, buckets, tickets, signalled, now, global_until>>

Tick ==
    /\ now < MaxTime
    /\ now' = now + 1
    /\ UNCHANGED <<cachevars, hdrvars, clustervars, lockvars, buckets, heap, tasks, tickets, global, signalled,
                   global_until>>

InitRL ==
    /\ cache = EmptyCache(EventTypes, 1)
    /\ last = [kind |-> "none"]
    /\ budget = 0
    /\ writer = Idle
    /\ RatelimiterNew

NextRL ==
    \/ \E path \in Paths : ticket(path)
    \/ \E t \in 1..Len(tickets) : DropReceiver(t)
    \/ \E b \in 1..Len(tasks) : WaitIfNeeded(b)
    \/ \E b \in 1..Len(tasks) : WaitDone(b)
    \/ \E b \in 1..Len(tasks) : Pop(b)
    \/ \E b \in 1..Len(tasks) : QueueDrained(b)
    \/ \E b \in 1..Len(tasks) : Exit(b)
    \/ \E b \in 1..Len(tasks) : CheckGlobal(b)
    \/ \E b \in 1..Len(tasks) : AwaitGlobal(b)
    \/ \E b \in 1..Len(tasks) : Signal(b)
    \/ \E b \in 1..Len(tasks), h \in Headers : Report(b, h)
    \/ \E b \in 1..Len(tasks) : HeadersTimeout(b)
    \/ \E b \in 1..Len(tasks) : LockGlobal(b)
    \/ \E b \in 1..Len(tasks) : UnlockGlobal(b)
    \/ Tick

SpecRL == InitRL /\ [][NextRL]_vars

----------------------------------------------------------------------------
(* Response headers: Headers::try_from.                                    *)

\* A HeaderValue is bytes.  What the parsers can tell apart:
\*   Dec(d, k)  the decimal text of d with its last k digits after the
\*              point: Dec(16001, 3) is "16.001", Dec(5, 0) is "5";
\*   Bool(b)    "true" or "false";
\*   Word       visible ASCII that is neither a number nor a bool;
\*   Bytes      bytes that are not visible ASCII.
Dec(d, k) == [sort |-> "dec", digits |-> d, scale |-> k]
Bool(b) == [sort |-> "bool", b |-> b]
Word == [sort |-> "word"]
Bytes == [sort |-> "bytes"]

Ok(v) == [ok |-> TRUE, v |-> v]
Err(e) == [ok |-> FALSE, err |-> e]

\* Arithmetic on naturals of any size, which f64 needs beyond the machine
\* integers: a natural is a sequence of limbs below 1024, or of bits, least
\* significant first.
RECURSIVE Limbs(_)
Limbs(n) == IF n = 0 THEN <<>> ELSE <<n % 1024>> \o Limbs(n \div 1024)

RECURSIVE Val(_)
Val(b) == IF b = <<>> THEN 0 ELSE Head(b) + 2 * Val(Tail(b))

RECURSIVE Pow2(_)
Pow2(k) == IF k = 0 THEN 1 ELSE 2 * Pow2(k - 1)

RECURSIVE Pow10(_)
Pow10(k) == IF k = 0 THEN 1 ELSE 10 * Pow10(k - 1)

ToBits(limbs) ==
    [i \in 1..(10 * Len(limbs)) |->
        (limbs[((i - 1) \div 10) + 1] \div Pow2((i - 1) % 10)) % 2]

FromBits(b) ==
    [j \in 1..((Len(b) + 9) \div 10) |->
        Val(SubSeq(b, 10 * (j - 1) + 1,
                   IF 10 * j < Len(b) THEN 10 * j ELSE Len(b)))]

\* without the leading zeros
Trim(b) ==
    LET ones == {i \in 1..Len(b) : b[i] = 1}
    IN IF ones = {} THEN <<>> ELSE SubSeq(b, 1, Max(ones))

\* b + 1
Inc(b) ==
    LET zeros == {i \in 1..Len(b) : b[i] = 0}
        z == IF zeros = {} THEN Len(b) + 1
             ELSE CHOOSE i \in zeros : \A k \in zeros : i <= k
    IN [i \in 1..(IF z > Len(b) THEN z ELSE Len(b)) |->
            IF i < z THEN 0 ELSE IF i = z THEN 1 ELSE b[i]]

Zeros(n) == [i \in 1..n |-> 0]

\* limbs * k + carry
RECURSIVE MulSmall(_, _, _)
MulSmall(limbs, k, carry) ==
    IF limbs = <<>> THEN Limbs(carry)
    ELSE LET t == Head(limbs) * k + carry
         IN <<t % 1024>> \o MulSmall(Tail(limbs), k, t \div 1024)

\* quotient and remainder of (rem * 1024^i + the low i limbs) by k
RECURSIVE DivSmall(_, _, _, _)
DivSmall(limbs, k, i, rem) ==
    IF i = 0 THEN [q |-> <<>>, r |-> rem]
    ELSE LET t == 1024 * rem + limbs[i]
             lower == DivSmall(limbs, k, i - 1, t % k)
         IN [q |-> Append(lower.q, t \div k), r |-> lower.r]

\* An f64 that is finite and not negative: m * 2^e, m of at most 53 bits.
\* Rounding of bits * 2^e (plus a lost fraction when inexact) to the
\* nearest such value, ties to even.
f64_round(bits, inexact, e) ==
    LET b == Trim(bits)
        r == Len(b) - 53
    IN IF r <= 0 THEN [m |-> b, e |-> e]
       ELSE LET kept == SubSeq(b, r + 1, Len(b))
                sticky == inexact \/ \E i \in 1..(r - 1) : b[i] = 1
                up == b[r] = 1 /\ (sticky \/ kept[1] = 1)
            IN [m |-> IF up THEN Inc(kept) ELSE kept, e |-> e + r]

\* str::parse::<f64>: the f64 nearest to d / 10^k.
parse_f64(d, k) ==
    LET n == Zeros(8) \o Limbs(d)
        q == DivSmall(n, Pow10(k), Len(n), 0)
    IN f64_round(ToBits(q.q), q.r # 0, 0 - 80)

\* x * 1000.
f64_mul_1000(x) ==
    f64_round(ToBits(MulSmall(FromBits(x.m), 1000, 0)), FALSE, x.e)

\* x.ceil() as u64
f64_ceil_as_u64(x) ==
    IF x.e >= 0 THEN Val(Zeros(x.e) \o x.m)
    ELSE LET n == 0 - x.e
             len == Len(x.m)
             fraction == \E i \in 1..(IF n < len THEN n ELSE len) : x.m[i] = 1
             whole == IF n >= len THEN <<>> ELSE SubSeq(x.m, n + 1, len)
         IN Val(whole) + (IF fraction THEN 1 ELSE 0)

header_str(m, name) ==
    IF ~Has(m, name) THEN Err([kind |-> "HeaderMissing", name |-> name])
    ELSE IF m[name].sort = "bytes"
    THEN Err([kind |-> "HeaderNotUtf8", name |-> name])
    ELSE Ok(m[name])

header_int(m, name) ==
    LET text == header_str(m, name)
    IN IF ~text.ok THEN text
       ELSE IF text.v.sort = "dec" /\ text.v.scale = 0 THEN Ok(text.v.digits)
       ELSE Err([kind |-> "ParsingIntText", name |-> name])

header_float(m, name) ==
    LET text == header_str(m, name)
    IN IF ~text.ok THEN text
       ELSE IF text.v.sort = "dec"
       THEN Ok(parse_f64(text.v.digits, text.v.scale))
       ELSE Err([kind |-> "ParsingFloatText", name |-> name])

header_bool(m, name) ==
    LET text == header_str(m, name)
    IN IF ~text.ok THEN text
       ELSE IF text.v.sort = "bool" THEN Ok(text.v.b)
       ELSE Err([kind |-> "ParsingBoolText", name |-> name])

parse_map(m) ==
    LET bucket == header_str(m, "x-ratelimit-bucket")
        global_flag == header_bool(m, "x-ratelimit-global")
        limit == header_int(m, "x-ratelimit-limit")
        remaining == header_int(m, "x-ratelimit-remaining")
        reset == header_float(m, "x-ratelimit-reset")
        reset_after == header_float(m, "x-ratelimit-reset-after")
    IN IF ~limit.ok THEN limit
       ELSE IF ~remaining.ok THEN remaining
       ELSE IF ~reset.ok THEN reset
       ELSE IF ~reset_after.ok THEN reset_after
       ELSE Ok([kind |-> "Present",
                bucket |-> IF bucket.ok THEN Some(bucket.v) ELSE None,
                global |-> IF global_flag.ok THEN global_flag.v ELSE FALSE,
                limit |-> limit.v,
                remaining |-> remaining.v,
                reset |-> f64_ceil_as_u64(f64_mul_1000(reset.v)),
                reset_after |-> f64_ceil_as_u64(f64_mul_1000(reset_after.v))])

\* try_from without the fallback to the global flag.
TryFromWithoutGlobal(m) ==
    LET v == parse_map(m)
    IN IF v.ok THEN v
       ELSE IF \E k \in {"x-ratelimit-bucket", "x-ratelimit-limit",
                         "x-ratelimit-remaining", "x-ratelimit-reset"} :
                   Has(m, k)
       THEN v
       ELSE Ok([kind |-> "None"])

try_from(m) ==
    LET v == parse_map(m)
    IN IF v.ok THEN v
       ELSE IF \E k \in {"x-ratelimit-bucket", "x-ratelimit-limit",
                         "x-ratelimit-remaining", "x-ratelimit-reset"} :
                   Has(m, k)
       THEN v
       ELSE IF Has(m, "x-ratelimit-global")
       THEN LET reset_after == header_int(m, "x-ratelimit-reset-after")
            IN IF reset_after.ok
               THEN Ok([kind |-> "GlobalLimited", reset_after |-> reset_after.v])
               ELSE reset_after
       ELSE Ok([kind |-> "None"])

\* The values a response may carry under each header name.
HeaderValues ==
    [x_ratelimit_bucket |-> {Word, Bytes},
     x_ratelimit_global |-> {Bool(TRUE), Bool(FALSE), Word},
     x_ratelimit_limit |-> {Dec(5, 0), Dec(15, 1), Bytes},
     x_ratelimit_remaining |-> {Dec(0, 0), Word},
     x_ratelimit_reset |-> {Dec(2, 0), Dec(16001, 3), Word},
     x_ratelimit_reset_after |->
         {Dec(1, 0), Dec(5, 4), Dec(2500, 3), Dec(16001, 3), Word, Bytes}]

HeaderName(field) ==
    CASE field = "x_ratelimit_bucket" -> "x-ratelimit-bucket"
      [] field = "x_ratelimit_global" -> "x-ratelimit-global"
      [] field = "x_ratelimit_limit" -> "x-ratelimit-limit"
      [] field = "x_ratelimit_remaining" -> "x-ratelimit-remaining"
      [] field = "x_ratelimit_reset" -> "x-ratelimit-reset"
      [] field = "x_ratelimit_reset_after" -> "x-ratelimit-reset-after"

HeaderNames == {HeaderName(f) : f \in DOMAIN HeaderValues}

FieldOf(name) == CHOOSE f \in DOMAIN HeaderValues : HeaderName(f) = name

Absent == [sort |-> "absent"]

\* Every header is optional.
HeaderMaps ==
    {LET present == {f \in DOMAIN c : c[f] # Absent}
     IN [name \in {HeaderName(f) : f \in present} |-> c[FieldOf(name)]] :
        c \in [x_ratelimit_bucket : HeaderValues.x_ratelimit_bucket \cup {Absent},
               x_ratelimit_global : HeaderValues.x_ratelimit_global \cup {Absent},
               x_ratelimit_limit : HeaderValues.x_ratelimit_limit \cup {Absent},
               x_ratelimit_remaining :
                   HeaderValues.x_ratelimit_remaining \cup {Absent},
               x_ratelimit_reset : HeaderValues.x_ratelimit_reset \cup {Absent},
               x_ratelimit_reset_after :
                   HeaderValues.x_ratelimit_reset_after \cup {Absent}]}

\* Headers::try_from(response.headers())
TryFrom ==
    /\ parsed = None
    /\ parsed' = Some(try_from(response))
    /\ UNCHANGED <<cachevars, buckets, heap, tasks, tickets, global, signalled,
                   now, global_until, response, clustervars, lockvars>>

InitHdr ==
    /\ cache = EmptyCache(EventTypes, 1)
    /\ last = [kind |-> "none"]
    /\ budget = 0
    /\ writer = Idle
    /\ buckets = EmptyMap
    /\ heap = <<>>
    /\ tasks = <<>>
    /\ tickets = <<>>
    /\ global = [locked |-> FALSE, mutex |-> None]
    /\ signalled = <<>>
    /\ now = 0
    /\ global_until = 0
    /\ response \in HeaderMaps
    /\ parsed = None
    /\ builder = None
    /\ calls = <<>>
    /\ outcome = None
    /\ locks = EmptyMap
    /\ producers = <<>>

NextHdr == TryFrom

SpecHdr == InitHdr /\ [][NextHdr]_vars

----------------------------------------------------------------------------
(* The rate limiter under the scheduling of the runtime: every spawned     *)
(* worker that can take a step eventually takes one, a wait for headers    *)
(* ends (by the report or by the timeout), and time passes while a worker  *)
(* sleeps.                                                                 *)

\* Ratelimiter::has and Ratelimiter::bucket, under the registry mutex.
has(path) == Has(buckets, path)

bucket(path) ==
    IF Has(buckets, path)
    THEN Some([remaining |-> heap[buckets[path]].remaining,
               reset_after |-> heap[buckets[path]].reset_after])
    ELSE None

FairTicket(path) == Len(tickets) < MaxFairTickets /\ ticket(path)

\* Time passes while some worker sleeps.
Elapse ==
    /\ \E b \in 1..Len(tasks) :
           tasks[b].pc \in {"wait", "global_sleep"} /\ tasks[b].wake > now
    /\ now' = now + 1
    /\ UNCHANGED <<cachevars, hdrvars, clustervars, lockvars, buckets, heap, tasks,
                   tickets, global, signalled, global_until>>

\* The steps of the worker b.
Worker(b) ==
    /\ b \in 1..Len(tasks)
    /\ \/ WaitIfNeeded(b) \/ WaitDone(b) \/ Pop(b) \/ QueueDrained(b)
       \/ Exit(b) \/ CheckGlobal(b) \/ AwaitGlobal(b) \/ Signal(b)
       \/ LockGlobal(b) \/ UnlockGlobal(b)

\* The worker's wait for the headers of the request it admitted ends.
HeadersWaitEnds(b) ==
    /\ b \in 1..Len(tasks)
    /\ \/ \E h \in Headers : Report(b, h)
       \/ HeadersTimeout(b)

NextRLFair ==
    \/ \E path \in Paths : FairTicket(path)
    \/ \E t \in 1..Len(tickets) : DropReceiver(t)
    \/ \E b \in 1..MaxFairTickets : Worker(b)
    \/ \E b \in 1..MaxFairTickets : HeadersWaitEnds(b)
    \/ Tick
    \/ Elapse

FairnessRL ==
    /\ \A b \in 1..MaxFairTickets : WF_vars(Worker(b))
    /\ \A b \in 1..MaxFairTickets : WF_vars(HeadersWaitEnds(b))
    /\ WF_vars(Elapse)

SpecRLFair == InitRL /\ [][NextRLFair]_vars /\ FairnessRL

----------------------------------------------------------------------------
(* The locks update() takes.  A table is a DashMap (the current user a     *)
(* Mutex); a map operation locks the shard of its key for as long as the   *)
(* guard it returns lives.  The shards are not told apart here: a table    *)
(* has one lock, so that two keys of a table always contend, and a task    *)
(* that asks again for a table it holds waits for itself.                  *)

Acq(table) == [op |-> "lock", table |-> table]
Rel(table) == [op |-> "unlock", table |-> table]
\* A map operation whose guard is dropped before the next statement.
One(table) == <<Acq(table), Rel(table)>>

LockedKinds ==
    {"MessageCreate", "MessageUpdate", "ReactionAdd", "ReactionRemove",
     "MemberRemove", "MemberAdd", "UserUpdate", "GuildDelete"}

\* MemberRemove::update as it would be without the two phases: the guard of
\* users.get_mut is still alive when the row is removed.
LockProgramOnePhase(kind) ==
    CASE kind = "MessageCreate" ->
             <<Acq("messages")>> \o One("users") \o One("members")
                 \o <<Rel("messages")>>
      [] kind = "MessageUpdate" -> One("messages")
      [] kind \in {"ReactionAdd", "ReactionRemove"} ->
             <<Acq("messages")>> \o One("current_user") \o <<Rel("messages")>>
      [] kind = "MemberRemove" ->
             One("members") \o One("guild_members")
                 \o <<Acq("users")>> \o One("users") \o <<Rel("users")>>
      [] kind = "MemberAdd" ->
             One("members") \o One("users") \o One("members")
                 \o One("guild_members")
      [] kind = "UserUpdate" -> One("current_user")
      [] kind = "GuildDelete" ->
             One("guilds") \o One("guild_members") \o One("members")

\* The locks each handler takes and drops, in the order of its statements.
\*   MessageCreate: `channel` (messages.entry) lives to the end of update;
\*     cache_user and cache_borrowed_partial_member run under it.
\*   ReactionAdd, ReactionRemove: cache.current_user() under `channel`.
\*   MemberRemove: members.remove; guild_members.get_mut; users.get_mut,
\*     dropped; users.remove_if.
\*   MemberAdd: cache_member (members.get, cache_user, members.insert), then
\*     guild_members.entry.
\*   GuildDelete: every remove returns the row; no guard is kept.
LockProgram(kind) ==
    CASE kind = "MessageCreate" ->
             <<Acq("messages")>> \o One("users") \o One("members")
                 \o <<Rel("messages")>>
      [] kind = "MessageUpdate" -> One("messages")
      [] kind \in {"ReactionAdd", "ReactionRemove"} ->
             <<Acq("messages")>> \o One("current_user") \o <<Rel("messages")>>
      [] kind = "MemberRemove" ->
             One("members") \o One("guild_members") \o One("users")
                 \o One("users")
      [] kind = "MemberAdd" ->
             One("members") \o One("users") \o One("members")
                 \o One("guild_members")
      [] kind = "UserUpdate" -> One("current_user")
      [] kind = "GuildDelete" ->
             One("guilds") \o One("guild_members") \o One("members")

\* The statement the producer p is at.
At(p) == LockProgram(producers[p].kind)[producers[p].pc]

\* The producer after the statement it is at.
Proceed(p) ==
    IF producers[p].pc = Len(LockProgram(producers[p].kind))
    THEN [producers EXCEPT ![p] = Idle]
    ELSE [producers EXCEPT ![p].pc = @ + 1]

lockframe ==
    <<cachevars, hdrvars, clustervars, buckets, heap, tasks, tickets, global,
      signalled, now, global_until>>

\* A producer calls update(event).
StartUpdate(p) ==
    /\ producers[p] = Idle
    /\ \E kind \in LockedKinds :
           producers' = [producers EXCEPT ![p] = [kind |-> kind, pc |-> 1]]
    /\ UNCHANGED <<locks, lockframe>>

\* The producer gets the lock it asks for, once nobody holds it.
Lock(p) ==
    /\ producers[p] # Idle
    /\ At(p).op = "lock"
    /\ ~Has(locks, At(p).table)
    /\ locks' = Put(locks, At(p).table, p)
    /\ producers' = Proceed(p)
    /\ UNCHANGED lockframe

\* The guard is dropped.
Unlock(p) ==
    /\ producers[p] # Idle
    /\ At(p).op = "unlock"
    /\ locks' = Del(locks, At(p).table)
    /\ producers' = Proceed(p)
    /\ UNCHANGED lockframe

InitLocks ==
    /\ cache = EmptyCache(EventTypes, 1)
    /\ last = [kind |-> "none"]
    /\ budget = 0
    /\ writer = Idle
    /\ buckets = EmptyMap
    /\ heap = <<>>
    /\ tasks = <<>>
    /\ tickets = <<>>
    /\ global = [locked |-> FALSE, mutex |-> None]
    /\ signalled = <<>>
    /\ now = 0
    /\ global_until = 0
    /\ response = EmptyMap
    /\ parsed = None
    /\ builder = None
    /\ calls = <<>>
    /\ outcome = None
    /\ locks = EmptyMap
    /\ producers = [p \in 1..MaxProducers |-> Idle]

NextLocks ==
    \/ \E p \in 1..MaxProducers : StartUpdate(p)
    \/ \E p \in 1..MaxProducers : Lock(p)
    \/ \E p \in 1..MaxProducers : Unlock(p)

SpecLocks == InitLocks /\ [][NextLocks]_vars

----------------------------------------------------------------------------
(* The cluster builder: ClusterBuilder(ClusterConfig, ShardBuilder).       *)

\* A String is the sequence of its characters.
BotPrefix == <<"B", "o", "t", " ">>

starts_with(s, prefix) ==
    Len(s) >= Len(prefix) /\ SubSeq(s, 1, Len(prefix)) = prefix

\* twilight_http::Client::new(token)
Client_new(token) == [id |-> "default", token |-> token]

\* ShardBuilder::new(token, intents): the shard configuration with its
\* defaults, the token prefixed if it is not yet.
ShardBuilder_new(token, intents) ==
    [token |-> IF starts_with(token, BotPrefix) THEN token
               ELSE BotPrefix \o token,
     intents |-> intents,
     http_client |-> Client_new(token),
     gateway_url |-> None,
     large_threshold |-> None,
     presence |-> None,
     queue |-> "LocalQueue of the shard builder"]

ShardBuilder_gateway_url(sb, url) == [sb EXCEPT !.gateway_url = url]
ShardBuilder_http_client(sb, client) == [sb EXCEPT !.http_client = client]
ShardBuilder_presence(sb, p) == [sb EXCEPT !.presence = Some(p)]
ShardBuilder_queue(sb, q) == [sb EXCEPT !.queue = q]

\* ShardBuilder::large_threshold: 50 to 250 inclusive.
ShardBuilder_large_threshold(sb, v) ==
    IF v < 50 THEN Err([kind |-> "LargeThresholdError::TooFew", value |-> v])
    ELSE IF v > 250
    THEN Err([kind |-> "LargeThresholdError::TooMany", value |-> v])
    ELSE Ok([sb EXCEPT !.large_threshold = Some(v)])

\* _new without the starts_with test: the prefix is always inserted.
ClusterBuilderNewAlwaysPrefixes(token, intents) ==
    LET tok == BotPrefix \o token
        client == Client_new(tok)
        shard_config ==
            ShardBuilder_http_client(ShardBuilder_new(tok, intents), client)
    IN [config |-> [http_client |-> client,
                    shard_config |-> shard_config,
                    shard_scheme |-> [kind |-> "Auto"],
                    queue |-> "LocalQueue of the cluster builder",
                    resume_sessions |-> EmptyMap],
        shard |-> [ShardBuilder_new(tok, intents) EXCEPT !.token = tok]]

\* ClusterBuilder::_new
ClusterBuilder_new(token, intents) ==
    LET tok == IF ~starts_with(token, BotPrefix) THEN BotPrefix \o token
               ELSE token
        client == Client_new(tok)
        shard_config ==
            ShardBuilder_http_client(ShardBuilder_new(tok, intents), client)
    IN [config |-> [http_client |-> client,
                    shard_config |-> shard_config,
                    shard_scheme |-> [kind |-> "Auto"],
                    queue |-> "LocalQueue of the cluster builder",
                    resume_sessions |-> EmptyMap],
        shard |-> ShardBuilder_new(tok, intents)]

gateway_url(b, url) == [b EXCEPT !.shard = ShardBuilder_gateway_url(@, url)]

http_client(b, client) ==
    [b EXCEPT !.shard = ShardBuilder_http_client(@, client)]

\* large_threshold without the ?: the value is stored whatever it is.
LargeThresholdUnchecked(b, v) ==
    Ok([b EXCEPT !.shard.large_threshold = Some(v)])

large_threshold(b, v) ==
    LET r == ShardBuilder_large_threshold(b.shard, v)
    IN IF r.ok THEN Ok([b EXCEPT !.shard = r.v]) ELSE r

presence(b, p) == [b EXCEPT !.shard = ShardBuilder_presence(@, p)]

shard_scheme(b, scheme) == [b EXCEPT !.config.shard_scheme = scheme]

queue(b, q) ==
    [b EXCEPT !.config.queue = q, !.shard = ShardBuilder_queue(@, q)]

resume_sessions(b, sessions) == [b EXCEPT !.config.resume_sessions = sessions]

\* Cluster::new_with_config: the Auto scheme asks the platform for the
\* recommended shard count, with the cluster's own HTTP client; a Range
\* scheme needs no request.
Cluster_new_with_config(config, recommendation) ==
    IF config.shard_scheme.kind = "Auto" /\ recommendation = "failed"
    THEN Err([kind |-> "ClusterStartError::RetrievingGatewayInfo"])
    ELSE Ok([config |-> config])

\* ClusterBuilder::build; `discovery` is how the request of the gateway
\* information ends when build makes it.
build(b, discovery, recommendation) ==
    LET b1 == IF b.shard.gateway_url = None
              THEN gateway_url(b, IF discovery = "ok"
                                  THEN Some("wss://gateway") ELSE None)
              ELSE b
        config == [b1.config EXCEPT !.shard_config = b1.shard]
    IN Cluster_new_with_config(config, recommendation)

Tokens ==
    {<<"x">>, <<"B", "o", "t", " ", "x">>, <<"B", "o", "t">>,
     <<"B", "o", "t", " ">>, <<"b", "o", "t", " ", "x">>, <<>>}

Clients == {[id |-> "c", token |-> <<"B", "o", "t", " ", "y">>]}

LargeThresholds == {0, 49, 50, 100, 250, 251}

ShardSchemes ==
    {[kind |-> "Auto"], [kind |-> "Range", from |-> 0, to |-> 1, total |-> 2]}

HttpResults == {"ok", "failed"}

\* A builder method that cannot fail.
Chain(method, arg, after) ==
    /\ outcome = None
    /\ Len(calls) <= MaxBuilderCalls
    /\ builder' = after
    /\ calls' = Append(calls, [method |-> method, arg |-> arg])
    /\ UNCHANGED <<cachevars, buckets, heap, tasks, tickets, global, signalled,
                   now, global_until, hdrvars, lockvars, outcome>>

CallGatewayUrl ==
    \E url \in {None, Some("wss://configured")} :
        Chain("gateway_url", url, gateway_url(builder, url))
CallHttpClient ==
    \E c \in Clients : Chain("http_client", c, http_client(builder, c))
CallPresence == Chain("presence", "idle", presence(builder, "idle"))
CallShardScheme ==
    \E s \in ShardSchemes : Chain("shard_scheme", s, shard_scheme(builder, s))
CallQueue == Chain("queue", "q", queue(builder, "q"))
CallResumeSessions ==
    LET sessions == [shard \in {0} |-> [session_id |-> "s", sequence |-> 7]]
    IN Chain("resume_sessions", sessions, resume_sessions(builder, sessions))

\* large_threshold(v)?: an error ends the chain.
CallLargeThreshold ==
    \E v \in LargeThresholds :
        LET r == large_threshold(builder, v)
        IN /\ outcome = None
           /\ Len(calls) <= MaxBuilderCalls
           /\ calls' = Append(calls, [method |-> "large_threshold", arg |-> v])
           /\ IF r.ok
              THEN builder' = r.v /\ UNCHANGED outcome
              ELSE /\ outcome' = Some([method |-> "large_threshold",
                                       result |-> r])
                   /\ UNCHANGED builder
           /\ UNCHANGED <<cachevars, buckets, heap, tasks, tickets, global,
                          signalled, now, global_until, hdrvars, lockvars>>

\* build().await
CallBuild ==
    \E discovery \in HttpResults, recommendation \in HttpResults :
        /\ outcome = None
        /\ calls' = Append(calls, [method |-> "build", arg |-> None])
        /\ outcome' =
               Some([method |-> "build",
                     url_configured |-> builder.shard.gateway_url # None,
                     discovery |-> IF builder.shard.gateway_url = None
                                   THEN discovery ELSE "not made",
                     result |-> build(builder, discovery, recommendation)])
        /\ UNCHANGED <<cachevars, buckets, heap, tasks, tickets, global,
                       signalled, now, global_until, hdrvars, lockvars, builder>>

\* Cluster::builder(token, intents)
InitCluster ==
    /\ cache = EmptyCache(EventTypes, 1)
    /\ last = [kind |-> "none"]
    /\ budget = 0
    /\ writer = Idle
    /\ buckets = EmptyMap
    /\ heap = <<>>
    /\ tasks = <<>>
    /\ tickets = <<>>
    /\ global = [locked |-> FALSE, mutex |-> None]
    /\ signalled = <<>>
    /\ now = 0
    /\ global_until = 0
    /\ response = EmptyMap
    /\ parsed = None
    /\ \E token \in Tokens :
           /\ builder = ClusterBuilder_new(token, "GUILD_MESSAGES")
           /\ calls = <<[method |-> "new", arg |-> token]>>
    /\ outcome = None
    /\ locks = EmptyMap
    /\ producers = <<>>

NextCluster ==
    \/ CallGatewayUrl \/ CallHttpClient \/ CallLargeThreshold
    \/ CallPresence \/ CallShardScheme \/ CallQueue \/ CallResumeSessions
    \/ CallBuild

SpecCluster == InitCluster /\ [][NextCluster]_vars

----------------------------------------------------------------------------
(* Claims about the cache.                                                 *)

\* C1: after any sequence of events, every channel's message map holds at
\* most message_cache_size entries.
C1_MessageMapWithinCacheSize ==
    \A c \in DOMAIN cache.messages :
        Cardinality(DOMAIN cache.messages[c]) <= cache.config.message_cache_size

\* No row of table `rows`, whose rows carry their guild id, belongs to g.
NoGuildItemOf(rows, g) == \A k \in DOMAIN rows : rows[k].guild_id # g
\* No row of a table keyed by (guild id, user id) belongs to g.
NoGuildKeyOf(rows, g) == \A k \in DOMAIN rows : k[1] # g

\* C2: after GuildDelete(g) no row of any table references g: no guild row,
\* guild channel, role, emoji, member, presence or voice state of g is left,
\* and no user's guild set contains g.
C2_GuildDeleteLeavesNoReference ==
    last.kind = "GuildDelete" =>
        LET g == last.ev.id
        IN /\ ~Has(cache.guilds, g)
           /\ NoGuildItemOf(cache.channels_guild, g)
           /\ NoGuildItemOf(cache.roles, g)
           /\ NoGuildItemOf(cache.emojis, g)
           /\ NoGuildKeyOf(cache.members, g)
           /\ NoGuildKeyOf(cache.presences, g)
           /\ NoGuildKeyOf(cache.voice_states, g)
           /\ \A u \in DOMAIN cache.users : g \notin cache.users[u]

\* C3: after MemberRemove(g, u), if u's guild set held no guild other than g
\* the user row of u is absent; otherwise it is present without g.
C3_MemberRemoveUserRow ==
    [][last'.kind = "MemberRemove" =>
        LET g == last'.ev.guild_id
            u == last'.ev.user
        IN IF GuildSetOf(cache, u) \ {g} = {}
           THEN ~Has(cache'.users, u)
           ELSE Has(cache'.users, u) /\ g \notin cache'.users[u]]_vars

\* A MemberRemove(g, u) has acted on a user whose guild set held g and
\* another guild: the row of u remains, without g.
C3_Witness ==
    /\ last.kind = "MemberRemove"
    /\ last.before = GuildIds
    /\ Has(cache.users, last.ev.user)
    /\ cache.users[last.ev.user] = GuildIds \ {last.ev.guild_id}

\* The reactions after ReactionAdd(ev) followed by ReactionRemove(ev).
RoundTrip(s, ev) == ReactionsOf(ReactionRemove(ReactionAdd(s, ev), ev), ev)

\* C4 as stated: for every cached message, emoji and user, ReactionAdd
\* followed by ReactionRemove by the same user restores the reactions list,
\* the self-reacted flag included, and no count goes below zero.
C4_RoundTripRestores ==
    \A ev \in ReactionPayloads :
        ReactionsOf(cache, ev) # {} =>
            /\ RoundTrip(cache, ev) = ReactionsOf(cache, ev)
            /\ \A r \in RoundTrip(cache, ev) :
                   \A i \in 1..Len(r) : r[i].count >= 0

\* The adder is the current user and the emoji's entry is already marked
\* self-reacted.
AlreadySelfReacted(s, ev) ==
    /\ s.current_user = Some(ev.user_id)
    /\ \E r \in ReactionsOf(s, ev) :
           FindReaction(r, ev.emoji) # 0 /\ r[FindReaction(r, ev.emoji)].me

\* C4 (amended): the round trip restores the reactions list, except that
\* when the adder is the current user and the entry was already marked
\* self-reacted the entry's flag ends cleared; no count goes below zero.
C4_RoundTripRestoresUnlessSelfReacted ==
    \A ev \in ReactionPayloads :
        \A r \in ReactionsOf(cache, ev) :
            /\ RoundTrip(cache, ev) =
                   {IF AlreadySelfReacted(cache, ev)
                    THEN [r EXCEPT ![FindReaction(r, ev.emoji)].me = FALSE]
                    ELSE r}
            /\ \A rt \in RoundTrip(cache, ev) :
                   \A i \in 1..Len(rt) : rt[i].count >= 0

\* The current user has just taken back a reaction: the list before the
\* ReactionRemove is what ReactionAdd by that user makes of the present
\* list, whose entry for the emoji remains, unmarked.
C4_Witness ==
    /\ last.kind = "ReactionRemove"
    /\ cache.current_user = Some(last.ev.user_id)
    /\ \E r \in ReactionsOf(cache, last.ev) :
           /\ FindReaction(r, last.ev.emoji) # 0
           /\ ~r[FindReaction(r, last.ev.emoji)].me
           /\ last.before = {AddReaction(r, last.ev.emoji, last.ev.user_id,
                                         cache.current_user)}

\* Every id the index holds for a guild is the key of a row of the table.
IndexedIdsHaveRows(index, rows) ==
    \A g \in DOMAIN index : \A id \in index[g] : Has(rows, id)
\* The same for the tables keyed by (guild id, user id).
IndexedUsersHaveRows(index, rows) ==
    \A g \in DOMAIN index : \A u \in index[g] : Has(rows, <<g, u>>)

\* C8: after every event, every id held in an auxiliary index set of a guild
\* (channels, emojis, roles, members, presences, voice states) has a matching
\* row in the corresponding base table.
C8_IndexedIdsHaveRows ==
    /\ IndexedIdsHaveRows(cache.guild_channels, cache.channels_guild)
    /\ IndexedIdsHaveRows(cache.guild_emojis, cache.emojis)
    /\ IndexedIdsHaveRows(cache.guild_roles, cache.roles)
    /\ IndexedUsersHaveRows(cache.guild_members, cache.members)
    /\ IndexedUsersHaveRows(cache.guild_presences, cache.presences)
    /\ IndexedUsersHaveRows(cache.voice_state_guilds, cache.voice_states)

\* C9: after every event, a user row is retained if and only if its guild
\* set is non-empty, and g is in the guild set of u only while the membership
\* of u in g has not been ended by MemberRemove(g, u) or GuildDelete(g).
C9_UserGuildSetTracksMembership ==
    /\ \A u \in DOMAIN cache.users : cache.users[u] # {}
    /\ last.kind = "MemberRemove" =>
           last.ev.guild_id \notin GuildSetOf(cache, last.ev.user)
    /\ last.kind = "GuildDelete" =>
           \A u \in UserIds : last.ev.id \notin GuildSetOf(cache, u)

\* C10: after every event, no message's reactions list has two entries with
\* the same emoji, and every entry has a count of at least 1.
C10_ReactionsDistinctAndPositive ==
    \A c \in DOMAIN cache.messages : \A m \in DOMAIN cache.messages[c] :
        LET r == cache.messages[c][m].reactions
        IN /\ \A i, j \in 1..Len(r) : r[i].emoji = r[j].emoji => i = j
           /\ \A i \in 1..Len(r) : r[i].count >= 1

\* A ReactionRemove has taken the last reaction of an emoji off a message
\* that keeps an entry for another emoji: the emptied entry is gone.
C10_Witness ==
    /\ last.kind = "ReactionRemove"
    /\ \E b \in last.before :
           /\ FindReaction(b, last.ev.emoji) # 0
           /\ b[FindReaction(b, last.ev.emoji)].count = 1
           /\ Len(b) = 2
    /\ \E r \in ReactionsOf(cache, last.ev) :
           Len(r) = 1 /\ FindReaction(r, last.ev.emoji) = 0

----------------------------------------------------------------------------
(* Claims about readers beside update().                                   *)

\* The queries of the public contract, as a reader is answered on cache s.
guild(s, id) == IF Has(s.guilds, id) THEN Some(s.guilds[id]) ELSE None
guild_channel(s, id) ==
    IF Has(s.channels_guild, id) THEN Some(s.channels_guild[id]) ELSE None
role(s, id) == IF Has(s.roles, id) THEN Some(s.roles[id]) ELSE None
emoji(s, id) == IF Has(s.emojis, id) THEN Some(s.emojis[id]) ELSE None
member(s, guild_id, user_id) ==
    IF Has(s.members, <<guild_id, user_id>>)
    THEN Some(s.members[<<guild_id, user_id>>]) ELSE None
members(s, guild_id) ==
    IF Has(s.guild_members, guild_id) THEN Some(s.guild_members[guild_id])
    ELSE None

\* Every answer a reader can get at one instant.
Queries(s) ==
    [guild |-> [g \in GuildIds |-> guild(s, g)],
     channel |-> [c \in ChannelIds |-> guild_channel(s, c)],
     role |-> [r \in RoleIds |-> role(s, r)],
     emoji |-> [e \in EmojiIds |-> emoji(s, e)],
     member |-> [k \in GuildIds \X UserIds |-> member(s, k[1], k[2])],
     members |-> [g \in GuildIds |-> members(s, g)]]

\* C7 as stated: a query beside update never observes a partially applied
\* event: what a reader is answered is what the cache answers before the
\* event in progress or after the whole of it.
C7_NoPartiallyAppliedEvent ==
    writer # Idle =>
        Queries(cache) \in {Queries(writer.before), Queries(Whole(writer))}

\* C7 (amended): a reader may observe a partially applied event, but only
\* in the order of the handler's statements: once a reader beside
\* GuildDelete(g) is answered differently than before the event, guild(g) is
\* absent; beside MemberAdd(g, u), past its first statement, member(g, u) is
\* returned.
C7_PartialOnlyInStatementOrder ==
    writer # Idle =>
        /\ (writer.kind = "GuildDelete"
                /\ Queries(cache) # Queries(writer.before)) =>
               guild(cache, writer.ev.id) = None
        /\ (writer.kind = "MemberAdd" /\ writer.pc > 1) =>
               member(cache, writer.ev.guild_id, writer.ev.user) # None

\* A GuildDelete(g) is in progress on a guild that was cached: guild(g) is
\* already absent while a channel of g is still returned.
C7_Witness ==
    /\ writer # Idle
    /\ writer.kind = "GuildDelete"
    /\ guild(writer.before, writer.ev.id) # None
    /\ guild(cache, writer.ev.id) = None
    /\ \E c \in ChannelIds :
           \E row \in guild_channel(cache, c) : row.guild_id = writer.ev.id

----------------------------------------------------------------------------
(* Claims about the rate limiter.                                          *)

\* The position of ticket t in the order of signals, 0 when not signalled.
SignalIndex(t) ==
    IF \E i \in 1..Len(signalled) : signalled[i] = t
    THEN CHOOSE i \in 1..Len(signalled) : signalled[i] = t
    ELSE 0

\* C5: tickets of one path are signalled in the order of their requests: if
\* A was requested before B on the same path, B is never signalled before A
\* has been signalled or passed over because its receiver was dropped.
C5_TicketsSignalledInRequestOrder ==
    \A a, b \in 1..Len(tickets) :
        (a < b /\ tickets[a].path = tickets[b].path /\ SignalIndex(b) # 0) =>
            \/ tickets[a].state = "passed"
            \/ SignalIndex(a) # 0 /\ SignalIndex(a) < SignalIndex(b)

\* C6: while the global latch is set, no ticket of any path is signalled
\* until the reported reset_after has elapsed and the latch is cleared.
C6_NoSignalWhileGloballyLocked ==
    [][Len(signalled') > Len(signalled) =>
          ~is_locked(global) /\ now >= global_until]_vars

----------------------------------------------------------------------------
(* Further claims about the cache.                                         *)

EventTypeOf ==
    [ChannelCreate |-> "CHANNEL_CREATE", ChannelDelete |-> "CHANNEL_DELETE",
     ChannelPinsUpdate |-> "CHANNEL_PINS_UPDATE",
     ChannelUpdate |-> "CHANNEL_UPDATE", GuildCreate |-> "GUILD_CREATE",
     GuildDelete |-> "GUILD_DELETE", GuildEmojisUpdate |-> "GUILD_EMOJIS_UPDATE",
     GuildUpdate |-> "GUILD_UPDATE", MemberAdd |-> "MEMBER_ADD",
     MemberChunk |-> "MEMBER_CHUNK", MemberRemove |-> "MEMBER_REMOVE",
     MemberUpdate |-> "MEMBER_UPDATE", MessageCreate |-> "MESSAGE_CREATE",
     MessageDelete |-> "MESSAGE_DELETE",
     MessageDeleteBulk |-> "MESSAGE_DELETE_BULK",
     MessageUpdate |-> "MESSAGE_UPDATE", PresenceUpdate |-> "PRESENCE_UPDATE",
     ReactionAdd |-> "REACTION_ADD", ReactionRemove |-> "REACTION_REMOVE",
     ReactionRemoveAll |-> "REACTION_REMOVE_ALL", Ready |-> "READY",
     RoleCreate |-> "ROLE_CREATE", RoleDelete |-> "ROLE_DELETE",
     RoleUpdate |-> "ROLE_UPDATE", UnavailableGuild |-> "UNAVAILABLE_GUILD",
     UserUpdate |-> "USER_UPDATE", VoiceServerUpdate |-> "VOICE_SERVER_UPDATE",
     VoiceStateUpdate |-> "VOICE_STATE_UPDATE"]

\* C12: an event of a kind whose flag is clear in the configured event_types
\* leaves the whole cache unchanged, whatever other flags are set.
C12_DisabledEventIsNoOp ==
    [][(budget' < budget
            /\ EventTypeOf[last'.kind] \notin cache.config.event_types) =>
          cache' = cache]_vars

\* A GuildDelete was ignored by a cache that holds the guild, or a
\* MessageDelete by a cache that holds the message.
C12_Witness ==
    \/ /\ last.kind = "GuildDelete"
       /\ "GUILD_DELETE" \notin cache.config.event_types
       /\ Has(cache.guilds, last.ev.id)
    \/ /\ last.kind = "MessageDelete"
       /\ "MESSAGE_DELETE" \notin cache.config.event_types
       /\ Has(ChannelMessages(cache, last.ev.channel_id), last.ev.id)

\* C13: with message_cache_size = 1, MessageCreate 10 then MessageCreate 20
\* in one channel leave that channel's table holding exactly {10}.
C13_SecondMessageEvicted ==
    (/\ cache.config.message_cache_size = 1
     /\ last.kind = "MessageCreate"
     /\ last.ev.id = 20
     /\ last.before.ids = {10}) =>
        DOMAIN ChannelMessages(cache, last.ev.channel_id) = {10}

----------------------------------------------------------------------------
(* Claims about the response headers.                                      *)

\* ceil(1000 * d / 10^k), in the integers
CeilMillis(text) ==
    (1000 * text.digits + Pow10(text.scale) - 1) \div Pow10(text.scale)

Classified(kind) ==
    parsed # None /\ \E r \in parsed : r.ok /\ r.v.kind = kind

\* C14: for every header set classified Present or GlobalLimited, reset and
\* reset_after are ceil(1000 * the seconds the header carries).
C14_MillisAreCeilOfSeconds ==
    \A r \in parsed :
        /\ (r.ok /\ r.v.kind \in {"Present", "GlobalLimited"}) =>
              r.v.reset_after = CeilMillis(response["x-ratelimit-reset-after"])
        /\ (r.ok /\ r.v.kind = "Present") =>
              r.v.reset = CeilMillis(response["x-ratelimit-reset"])

\* The header is present and its text is an integer / a number.
IsIntText(name) ==
    /\ Has(response, name)
    /\ response[name].sort = "dec"
    /\ response[name].scale = 0
IsFloatText(name) == Has(response, name) /\ response[name].sort = "dec"

NoneOf(names) == \A name \in names : ~Has(response, name)

\* C15: the result is Present exactly when limit, remaining, reset and
\* reset-after are all present and parse; it is GlobalLimited when
\* x-ratelimit-global is present with a reset-after and no per-bucket header
\* is; it is None when no per-bucket header and no global flag is present.
C15_Classification ==
    \A r \in parsed :
        /\ (r.ok /\ r.v.kind = "Present") <=>
              /\ IsIntText("x-ratelimit-limit")
              /\ IsIntText("x-ratelimit-remaining")
              /\ IsFloatText("x-ratelimit-reset")
              /\ IsFloatText("x-ratelimit-reset-after")
        /\ (/\ Has(response, "x-ratelimit-global")
            /\ IsFloatText("x-ratelimit-reset-after")
            /\ NoneOf({"x-ratelimit-bucket", "x-ratelimit-limit",
                       "x-ratelimit-remaining", "x-ratelimit-reset"})) =>
              (r.ok /\ r.v.kind = "GlobalLimited")
        /\ NoneOf(HeaderNames) => (r.ok /\ r.v.kind = "None")

PerBucketHeaders ==
    {"x-ratelimit-bucket", "x-ratelimit-limit", "x-ratelimit-remaining",
     "x-ratelimit-reset", "x-ratelimit-reset-after"}

\* The header is present and is not text of the type it is declared with.
Malformed(name) ==
    /\ Has(response, name)
    /\ CASE name = "x-ratelimit-bucket" -> response[name].sort = "bytes"
         [] name \in {"x-ratelimit-limit", "x-ratelimit-remaining"} ->
                ~IsIntText(name)
         [] OTHER -> ~IsFloatText(name)

SomeButNotAll(names) ==
    /\ \E name \in names : Has(response, name)
    /\ \E name \in names : ~Has(response, name)

\* C16: when some but not all of the five per-bucket headers are present, or
\* a present one is malformed or not UTF-8, the result is an error, never
\* Present, GlobalLimited or None.
C16_PartialOrMalformedIsError ==
    \A r \in parsed :
        (\/ SomeButNotAll(PerBucketHeaders)
         \/ \E name \in PerBucketHeaders : Malformed(name)) => ~r.ok

----------------------------------------------------------------------------
(* Claims drawn from the cache's tests.                                    *)

\* C17: GuildUpdate of a cached guild stores the payload's name and
\* owner_id under the same id, max_presences = 25000 and
\* premium_subscription_count = 0 when the payload gives none, and leaves
\* every other guild and every other table and index as it was.
C17_GuildUpdateMergesFields ==
    [][(/\ budget' < budget
        /\ last'.kind = "GuildUpdate"
        /\ Has(cache.guilds, last'.ev.id)) =>
          LET pg == last'.ev
              row == cache'.guilds[pg.id]
          IN /\ DOMAIN cache'.guilds = DOMAIN cache.guilds
             /\ row.name = pg.name
             /\ row.owner_id = pg.owner_id
             /\ row.max_presences =
                    (IF pg.max_presences = None THEN Some(25000)
                     ELSE pg.max_presences)
             /\ row.premium_subscription_count =
                    (IF pg.premium_subscription_count = None THEN Some(0)
                     ELSE pg.premium_subscription_count)
             /\ \A g \in DOMAIN cache.guilds \ {pg.id} :
                    cache'.guilds[g] = cache.guilds[g]
             /\ [cache' EXCEPT !.guilds = cache.guilds] = cache]_vars

\* A GuildUpdate without max_presences reached a cached guild that has
\* channels and members.
C17_Witness ==
    /\ last.kind = "GuildUpdate"
    /\ last.ev.max_presences = None
    /\ Has(cache.guilds, last.ev.id)
    /\ cache.guilds[last.ev.id].name = last.ev.name
    /\ cache.guilds[last.ev.id].max_presences = Some(25000)
    /\ Has(cache.guild_channels, last.ev.id)
    /\ cache.guild_channels[last.ev.id] # {}
    /\ Has(cache.guild_members, last.ev.id)
    /\ cache.guild_members[last.ev.id] # {}

\* C18: ChannelDelete of a cached guild channel removes its row and takes
\* its id out of the guild->channels index of its guild; the index entry of
\* that guild stays in the index (no entry appears or disappears), and the
\* other channels keep their rows and their places in the index.
C18_ChannelDeleteUnindexes ==
    [][(/\ budget' < budget
        /\ last'.kind = "ChannelDelete"
        /\ last'.ev.variant = "Guild"
        /\ Has(cache.channels_guild, last'.ev.id)) =>
          LET id == last'.ev.id
              g == cache.channels_guild[id].guild_id
          IN /\ ~Has(cache'.channels_guild, id)
             /\ DOMAIN cache'.guild_channels = DOMAIN cache.guild_channels
             /\ \A h \in DOMAIN cache.guild_channels :
                    cache'.guild_channels[h] =
                        (IF h = g THEN cache.guild_channels[h] \ {id}
                         ELSE cache.guild_channels[h])
             /\ \A c \in DOMAIN cache.channels_guild \ {id} :
                    /\ Has(cache'.channels_guild, c)
                    /\ cache'.channels_guild[c] = cache.channels_guild[c]]_vars

\* A cached guild channel was deleted and another channel of its guild is
\* still indexed.
C18_Witness ==
    /\ last.kind = "ChannelDelete"
    /\ last.ev.variant = "Guild"
    /\ ~Has(cache.channels_guild, last.ev.id)
    /\ \E row \in last.before.row :
           /\ Has(cache.guild_channels, row.guild_id)
           /\ cache.guild_channels[row.guild_id] # {}
           /\ last.ev.id \notin cache.guild_channels[row.guild_id]

\* The guild->channels index holds the channel of event c under c's guild.
IndexedUnderItsGuild(s, c) ==
    \A g \in c.guild_id :
        Has(s.guild_channels, g) /\ c.id \in s.guild_channels[g]

\* C19, as stated: ChannelUpdate with a guild channel that is not cached
\* inserts its row and indexes it under its guild; the same ChannelUpdate
\* applied again changes nothing.
C19_ChannelUpdateInsertsOnce ==
    [][(/\ budget' < budget
        /\ last'.kind = "ChannelUpdate"
        /\ last'.ev.variant = "Guild") =>
          /\ ~Has(cache.channels_guild, last'.ev.id) =>
                /\ Has(cache'.channels_guild, last'.ev.id)
                /\ IndexedUnderItsGuild(cache', last'.ev)
          /\ last'.before.repeat => cache' = cache]_vars

\* C19, amended: the same for a guild channel that carries its guild id; one
\* that carries none is ignored.
C19_ChannelUpdateWithGuildIdInsertsOnce ==
    [][(/\ budget' < budget
        /\ last'.kind = "ChannelUpdate"
        /\ last'.ev.variant = "Guild") =>
          /\ (~Has(cache.channels_guild, last'.ev.id)
                  /\ last'.ev.guild_id # None) =>
                /\ Has(cache'.channels_guild, last'.ev.id)
                /\ IndexedUnderItsGuild(cache', last'.ev)
          /\ (~Has(cache.channels_guild, last'.ev.id)
                  /\ last'.ev.guild_id = None) => cache' = cache
          /\ last'.before.repeat => cache' = cache]_vars

\* A ChannelUpdate that inserted its channel was applied a second time.
C19_Witness ==
    /\ last.kind = "ChannelUpdate"
    /\ last.ev.guild_id # None
    /\ last.before.repeat
    /\ last.before.row # None
    /\ Has(cache.channels_guild, last.ev.id)
    /\ IndexedUnderItsGuild(cache, last.ev)
    /\ Cardinality(DOMAIN cache.channels_guild) = 1

\* C20: in a cache built with MESSAGE_CREATE alone, a MessageCreate that
\* carries guild g, author u and a partial member leaves a user row for u,
\* whose guild set is exactly {g} when u had no row before, a member row
\* for (g, u), and the message in the table of its channel.
C20_MessageCreateCachesAuthor ==
    [][(/\ budget' < budget
        /\ last'.kind = "MessageCreate"
        /\ cache.config.event_types = {"MESSAGE_CREATE"}
        /\ last'.ev.guild_id # None
        /\ last'.ev.member # None) =>
          LET msg == last'.ev
          IN \A g \in msg.guild_id :
                /\ Has(cache'.users, msg.author)
                /\ g \in cache'.users[msg.author]
                /\ ~Has(cache.users, msg.author) =>
                       cache'.users[msg.author] = {g}
                /\ Has(cache'.members, <<g, msg.author>>)
                /\ Has(ChannelMessages(cache', msg.channel_id), msg.id)]_vars

\* Such a MessageCreate found no row for its author.
C20_Witness ==
    /\ last.kind = "MessageCreate"
    /\ cache.config.event_types = {"MESSAGE_CREATE"}
    /\ last.before.author = None
    /\ last.ev.member # None
    /\ \E g \in last.ev.guild_id :
           /\ Has(cache.users, last.ev.author)
           /\ cache.users[last.ev.author] = {g}
           /\ Has(cache.members, <<g, last.ev.author>>)
    /\ DOMAIN ChannelMessages(cache, last.ev.channel_id) = {last.ev.id}

----------------------------------------------------------------------------
(* Claims about events whose target is not cached.                         *)

\* The event applied last names a row that is not cached.
TargetAbsent(kind, ev) ==
    CASE kind = "MemberRemove" -> ~Has(cache.members, <<ev.guild_id, ev.user>>)
      [] kind = "MemberUpdate" -> ~Has(cache.members, <<ev.guild_id, ev.user>>)
      [] kind = "GuildUpdate" -> ~Has(cache.guilds, ev.id)
      [] OTHER -> FALSE

\* C21, as stated: MemberRemove and MemberUpdate for a member that is not
\* cached and GuildUpdate for a guild that is not cached leave every row,
\* every index set and every user's guild set as they were.
C21_AbsentTargetIsNoOp ==
    [][(budget' < budget /\ TargetAbsent(last'.kind, last'.ev)) =>
          cache' = cache]_vars

----------------------------------------------------------------------------
(* Claims about the life of a bucket and of its worker.                    *)

\* The step in which the worker b removes its entry and ends.
WorkerExits(b) == tasks[b].pc = "exiting" /\ tasks'[b].pc = "done"

\* C26: when a bucket's queue drains, its worker exits and removes the
\* bucket's entry from the registry; from then on has(path) is false and
\* bucket(path) is None until the next ticket(path), which creates a fresh
\* bucket entry and spawns a new worker.
C26_DrainedWorkerRemovesEntry ==
    /\ \A b \in 1..MaxFairTickets :
           (b \in 1..Len(tasks) /\ tasks[b].pc = "next" /\ heap[b].queue = <<>>)
               ~> (b \in 1..Len(tasks)
                      /\ (tasks[b].pc = "done" \/ heap[b].queue # <<>>))
    /\ \A b \in 1..MaxFairTickets :
           (b \in 1..Len(tasks) /\ tasks[b].pc = "exiting")
               ~> (b \in 1..Len(tasks) /\ tasks[b].pc = "done")
    /\ [][\A b \in 1..Len(tasks) :
              WorkerExits(b) =>
                  ~has(heap[b].path)' /\ bucket(heap[b].path)' = None]_vars
    /\ [][\A path \in Paths :
              (~has(path) /\ has(path)') =>
                  /\ bucket(path) = None
                  /\ Len(tickets') = Len(tickets) + 1
                  /\ tickets'[Len(tickets')].path = path
                  /\ buckets'[path] = Len(heap) + 1
                  /\ Len(heap') = Len(heap) + 1
                  /\ heap'[Len(heap')] =
                         [NewBucket(path) EXCEPT !.queue = <<Len(tickets')>>]
                  /\ tasks' = Append(tasks, NewTask)]_vars

\* The first worker of a path has exited, and a later ticket of the path
\* has a second bucket registered and a second worker running.
C26_Witness ==
    /\ Len(tasks) = 2
    /\ tasks[1].pc = "done"
    /\ heap[2].path = heap[1].path
    /\ has(heap[1].path)
    /\ buckets[heap[1].path] = 2

\* The ticket u is still waiting although the receiver of t was dropped;
\* u was requested later on the same path, or on another path.
WaitsBesideDropped(t, u) ==
    /\ t \in 1..Len(tickets) /\ u \in 1..Len(tickets)
    /\ tickets[t].state \in {"dropped", "passed"}
    /\ tickets[u].state = "waiting"
    /\ \/ tickets[u].path # tickets[t].path
       \/ tickets[u].path = tickets[t].path /\ u > t

\* C27: a ticket whose receiver is dropped before it is admitted is passed
\* over without blocking: every later ticket queued on the same path, and
\* every ticket on another path, is still eventually signalled (or given
\* up by its own requester).
C27_DroppedReceiverBlocksNobody ==
    \A t \in 1..MaxFairTickets : \A u \in 1..MaxFairTickets :
        WaitsBesideDropped(t, u)
            ~> (u \in 1..Len(tickets) /\ tickets[u].state # "waiting")

\* The worker b waits for the headers of the ticket it signalled while the
\* ticket u waits in the queue of the same bucket.
QueuedBehindAwaitedHeaders(b, u) ==
    /\ b \in 1..Len(tasks) /\ u \in 1..Len(tickets)
    /\ tasks[b].pc = "await_headers"
    /\ tickets[u].bucket = b
    /\ tickets[u].state = "waiting"

ReportedExhausted(c) ==
    \E r \in tasks[c].reported :
        r.headers.kind = "Present" /\ r.headers.remaining = 0

\* The step in which the worker b signals a ticket whose receiver is alive.
WorkerSignals(b) == tasks[b].pc = "signal" /\ tasks'[b].pc = "await_headers"

\* C29: after a served request reports Present headers with remaining = 0,
\* no ticket of that path is signalled before reset_after has elapsed since
\* the report; a worker sleeps for its bucket only after such a report (not
\* when remaining > 0 or the headers are None).
C29_ExhaustedBucketWaits ==
    /\ [][\A b \in 1..Len(tasks) : \A c \in 1..Len(tasks) :
              (WorkerSignals(b) /\ heap[c].path = heap[b].path
                   /\ ReportedExhausted(c)) =>
                  \A r \in tasks[c].reported :
                      now >= r.at + r.headers.reset_after]_vars
    /\ [](\A b \in 1..Len(tasks) :
              tasks[b].pc = "wait" => ReportedExhausted(b))

\* The first ticket of a bucket was reported at time 0 with remaining = 0
\* and reset_after = 1, and the second is signalled, at time 1.
C29_Witness ==
    \E b \in 1..Len(tasks) :
        /\ tasks[b].pc = "await_headers"
        /\ tasks[b].ticket = 2
        /\ tickets[1].bucket = b /\ tickets[1].state = "reported"
        /\ tickets[2].bucket = b /\ tickets[2].state = "signalled"
        /\ tasks[b].reported =
               Some([headers |-> [kind |-> "Present", global |-> FALSE,
                                  remaining |-> 0, reset_after |-> 1],
                     at |-> 0])
        /\ now = 1

----------------------------------------------------------------------------
(* Claims about MemberRemove beside other update() calls.                  *)

\* C30: while MemberRemove(g1, u) runs beside an event that adds a guild g2
\* to u's guild set (MemberAdd, or MessageCreate in a guild), in every
\* interleaving the user row of u is removed only by the MemberRemove in
\* progress and only when its guild set is empty at that step.
C30_UserRowRemovedOnlyWhenEmpty ==
    [][\A u \in UserIds :
           (Has(cache.users, u) /\ ~Has(cache'.users, u)) =>
               /\ writer # Idle
               /\ writer.kind = "MemberRemove"
               /\ writer.ev.user = u
               /\ cache.users[u] = {}]_vars

\* MemberRemove(1, 1) had emptied the guild set of user 1 when a MemberAdd
\* put guild 2 into it; remove_if has run since and the row is still there.
C30_Witness ==
    /\ writer = Idle
    /\ last.kind = "MemberAdd"
    /\ last.ev.guild_id = 2 /\ last.ev.user = 1
    /\ last.before = Some([stmt |-> "remove_if",
                           ev |-> [guild_id |-> 1, user |-> 1]])
    /\ Has(cache.users, 1)
    /\ cache.users[1] = {2}

----------------------------------------------------------------------------
(* Claims about the locks of the cache.                                    *)

\* The producer p asks for a lock that is held.
Blocked(p) ==
    /\ producers[p] # Idle
    /\ At(p).op = "lock"
    /\ Has(locks, At(p).table)

\* C31: concurrent update calls never deadlock: there is no set of producers
\* each of which waits for a lock held by a producer of the set.
C31_NoDeadlock ==
    ~ \E S \in SUBSET (1..MaxProducers) :
          /\ S # {}
          /\ \A p \in S : Blocked(p) /\ locks[At(p).table] \in S

\* A MessageCreate holds the channel's message map and waits for the user
\* table, which a MemberRemove of another producer holds.
C31_Witness ==
    \E p \in 1..MaxProducers : \E q \in 1..MaxProducers :
        /\ Blocked(p)
        /\ producers[p].kind = "MessageCreate"
        /\ At(p).table = "users"
        /\ locks[At(p).table] = q
        /\ producers[q] # Idle
        /\ producers[q].kind = "MemberRemove"

----------------------------------------------------------------------------
(* Further claims about GuildDelete, MessageCreate, roles, reactions and   *)
(* Ready.                                                                  *)

\* What the index `idx` of the cache s holds for the guild g.
Indexed(s, idx, g) == IF Has(s[idx], g) THEN s[idx][g] ELSE {}

\* After the step, the index entry of g is gone from idx and so is every
\* row of `table` the entry referenced; the rows are keyed by the id alone
\* or by (guild id, user id).
CascadeById(idx, table, g) ==
    /\ ~Has(cache'[idx], g)
    /\ \A x \in Indexed(cache, idx, g) : ~Has(cache'[table], x)

CascadeByGuildAndUser(idx, table, g) ==
    /\ ~Has(cache'[idx], g)
    /\ \A u \in Indexed(cache, idx, g) : ~Has(cache'[table], <<g, u>>)

\* C32: GuildDelete(g) removes the guild row and, for each of the six
\* auxiliary indices (channels, emojis, roles, members, presences, voice
\* states), the index entry of g and every base row the entry referenced.
C32_GuildDeleteCascades ==
    [][(budget' < budget /\ last'.kind = "GuildDelete") =>
           LET g == last'.ev.id
           IN /\ ~Has(cache'.guilds, g)
              /\ CascadeById("guild_channels", "channels_guild", g)
              /\ CascadeById("guild_emojis", "emojis", g)
              /\ CascadeById("guild_roles", "roles", g)
              /\ CascadeByGuildAndUser("guild_members", "members", g)
              /\ CascadeByGuildAndUser("guild_presences", "presences", g)
              /\ CascadeByGuildAndUser("voice_state_guilds", "voice_states", g)
      ]_vars

\* C33: on MessageCreate an eviction happens exactly when the channel's
\* message map already holds message_cache_size entries; it removes exactly
\* one entry, the one with the greatest id stored, and the new message is
\* then inserted.
C33_EvictionExactlyAtCapacity ==
    [][(budget' < budget /\ last'.kind = "MessageCreate") =>
           LET stored == last'.before.ids
               after == DOMAIN ChannelMessages(cache', last'.ev.channel_id)
           IN IF Cardinality(stored) >= cache.config.message_cache_size
              THEN after = (stored \ {Max(stored)}) \cup {last'.ev.id}
              ELSE after = stored \cup {last'.ev.id}
      ]_vars

(* The guilds whose guild->roles set holds role r. *)
RoleGuilds(s, r) == {g \in DOMAIN s.guild_roles : r \in s.guild_roles[g]}

(* C34: RoleCreate, RoleUpdate and RoleDelete keep the guild->roles index in
   lockstep with the role table: after RoleCreate(g, r) or RoleUpdate(g, r)
   the role row is present and r is in g's guild->roles set; after
   RoleDelete the row is absent and r is in no guild->roles set. *)
C34_RolesIndexInLockstep ==
    [][/\ (budget' < budget /\ last'.kind \in {"RoleCreate", "RoleUpdate"}) =>
              /\ Has(cache'.roles, last'.ev.role)
              /\ last'.ev.role \in Indexed(cache', "guild_roles", last'.ev.guild_id)
       /\ (budget' < budget /\ last'.kind = "RoleDelete") =>
              /\ ~Has(cache'.roles, last'.ev.role_id)
              /\ RoleGuilds(cache', last'.ev.role_id) = {}
      ]_vars

(* C35: ReactionAdd on a cached message: if a reaction with the same emoji
   exists, its count is incremented by one and its self-reacted flag becomes
   true when the adder is the current user (and is otherwise unchanged); if
   none exists, one entry {count 1, emoji, self = adder is the current user}
   is appended; all other reaction entries are unchanged. *)
C35_ReactionAddCountsOrAppends ==
    [][(budget' < budget /\ last'.kind = "ReactionAdd" /\ last'.before # None) =>
           LET ev == last'.ev
               old == CHOOSE r \in last'.before : TRUE
               new == cache'.messages[ev.channel_id][ev.message_id].reactions
               adder_is_me == cache.current_user = Some(ev.user_id)
               same == {i \in 1..Len(old) : old[i].emoji = ev.emoji}
           IN IF same # {}
              THEN /\ Len(new) = Len(old)
                   /\ \E i \in same :
                        /\ new[i] = [count |-> old[i].count + 1,
                                     emoji |-> ev.emoji,
                                     me |-> (old[i].me \/ adder_is_me)]
                        /\ \A j \in (1..Len(old)) \ {i} : new[j] = old[j]
              ELSE new = Append(old, [count |-> 1, emoji |-> ev.emoji,
                                      me |-> adder_is_me])
      ]_vars

(* A reaction of the current user has just been added to by another user. *)
C35_Witness ==
    /\ last.kind = "ReactionAdd"
    /\ last.before # None
    /\ cache.current_user # None
    /\ cache.current_user # Some(last.ev.user_id)
    /\ \E r \in last.before : \E i \in 1..Len(r) :
          r[i].emoji = last.ev.emoji /\ r[i].me

GuildIndices ==
    {"guild_channels", "guild_emojis", "guild_members", "guild_presences",
     "guild_roles", "voice_state_guilds"}

(* The guild row and the auxiliary indices of guild g are the same in s and t. *)
SameGuild(s, t, g) ==
    /\ Has(s.guilds, g) /\ Has(t.guilds, g)
    /\ s.guilds[g] = t.guilds[g]
    /\ \A idx \in GuildIndices :
          /\ Has(s[idx], g) = Has(t[idx], g)
          /\ Indexed(s, idx, g) = Indexed(t, idx, g)

(* C36: Ready (READY enabled) sets the current user to the payload's user
   and, for each guild of the payload, inserts its id into the unavailable
   set when it is marked offline and, when it is online, applies it as a
   GuildCreate event would: the resulting guild row and auxiliary indices
   equal those produced by GuildCreate of the same guild. *)
C36_ReadyAppliesGuildsAsGuildCreate ==
    [][(budget' < budget /\ last'.kind = "Ready") =>
           /\ cache'.current_user = Some(last'.ev.user)
           /\ \A st \in last'.ev.guilds :
                 IF st.status = "Offline"
                 THEN st.guild.id \in cache'.unavailable_guilds
                 ELSE SameGuild(cache', GuildCreate(cache, st.guild), st.guild.id)
      ]_vars

(* Ready has acted on a cache that already held its offline guild: the
   online guild is cached, the offline one is marked, and the channels it
   had cached are still indexed. *)
C36_Witness ==
    /\ last.kind = "Ready"
    /\ cache.current_user = Some(last.ev.user)
    /\ \E st \in last.ev.guilds :
          st.status = "Online" /\ Has(cache.guilds, st.guild.id)
    /\ \E st \in last.ev.guilds :
          /\ st.status = "Offline"
          /\ st.guild.id \in cache.unavailable_guilds
          /\ Indexed(cache, "guild_channels", st.guild.id) # {}

(* The ticket t waits in the queue of a bucket whose worker has ended. *)
LeftWithoutWorker(t) ==
    /\ t \in 1..Len(tickets)
    /\ tickets[t].state = "waiting"
    /\ tasks[tickets[t].bucket].pc = "done"

(* C37: every ticket requested through ticket(path) whose receiver is kept
   alive is eventually signalled, in every interleaving, including when the
   request is pushed into an existing bucket entry at the moment its worker
   has found the queue drained and is about to exit: no ticket is left in a
   bucket that has no running worker. *)
C37_EveryKeptTicketIsSignalled ==
    /\ \A t \in 1..MaxFairTickets :
           (t \in 1..Len(tickets) /\ tickets[t].state = "waiting")
               ~> (t \in 1..Len(tickets) /\ tickets[t].state # "waiting")
    /\ [](\A t \in 1..MaxFairTickets : ~LeftWithoutWorker(t))

(* Every bucket ever created has one worker task, and every entry of the
   registry names a bucket of its path whose worker has not ended. *)
OneWorkerPerEntry ==
    /\ Len(tasks) = Len(heap)
    /\ \A path \in DOMAIN buckets :
          /\ buckets[path] \in 1..Len(heap)
          /\ heap[buckets[path]].path = path
          /\ tasks[buckets[path]].pc # "done"

(* C38: at every moment there is at most one worker task per bucket entry
   in the registry: ticket(path) spawns a worker only when it created the
   entry for that path under the registry lock, and ticket calls for the
   same new path create exactly one entry and one worker. *)
C38_OneWorkerPerBucketEntry ==
    /\ []OneWorkerPerEntry
    /\ [][Len(tasks') # Len(tasks) =>
              /\ Len(tasks') = Len(tasks) + 1
              /\ \E path \in Paths :
                    /\ ~Has(buckets, path)
                    /\ Has(buckets', path)
                    /\ buckets'[path] = Len(tasks')]_vars
    /\ [][\A path \in Paths :
              (Has(buckets, path) /\ Len(tickets') > Len(tickets)
                  /\ tickets'[Len(tickets')].path = path) =>
                  /\ buckets' = buckets
                  /\ Len(heap') = Len(heap)
                  /\ tasks' = tasks]_vars

(* Two tickets were requested for one new path: one entry, one worker. *)
C38_Witness ==
    /\ Len(tickets) = 2
    /\ tickets[1].path = tickets[2].path
    /\ tickets[1].bucket = tickets[2].bucket
    /\ Has(buckets, tickets[1].path)
    /\ Len(heap) = 1
    /\ Len(tasks) = 1

(* The response holds x-ratelimit-global and none of x-ratelimit-bucket,
   -limit, -remaining, -reset. *)
GlobalWithoutBucketHeaders ==
    /\ Has(response, "x-ratelimit-global")
    /\ NoneOf({"x-ratelimit-bucket", "x-ratelimit-limit",
               "x-ratelimit-remaining", "x-ratelimit-reset"})

(* The value of x-ratelimit-reset-after is text of digits only. *)
ResetAfterIsUnsignedInt == IsIntText("x-ratelimit-reset-after")

(* The error Headers::try_from returned is of one of the kinds. *)
ParsedIsError(kinds) ==
    \A r \in parsed :
        /\ ~r.ok
        /\ r.err.kind \in kinds
        /\ r.err.name = "x-ratelimit-reset-after"

(* C39, as stated: for a header map that contains x-ratelimit-global and
   none of x-ratelimit-bucket, -limit, -remaining, -reset: if
   x-ratelimit-reset-after is absent or is not an unsigned integer text,
   parsing returns an error (header-missing or parse-int) instead of None or
   GlobalLimited. *)
C39_GlobalWithoutResetAfterIsError ==
    (parsed # None /\ GlobalWithoutBucketHeaders /\ ~ResetAfterIsUnsignedInt)
        => ParsedIsError({"HeaderMissing", "ParsingIntText"})

(* C39, amended: in the same case parsing returns an error instead of None
   or GlobalLimited: header-missing when x-ratelimit-reset-after is absent,
   header-not-utf8 when its value is not UTF-8 text, parse-int when it is
   text that is not an unsigned integer. *)
C39_GlobalWithoutResetAfterIsErrorOfThreeKinds ==
    (parsed # None /\ GlobalWithoutBucketHeaders /\ ~ResetAfterIsUnsignedInt)
        => IF ~Has(response, "x-ratelimit-reset-after")
           THEN ParsedIsError({"HeaderMissing"})
           ELSE IF response["x-ratelimit-reset-after"].sort = "bytes"
           THEN ParsedIsError({"HeaderNotUtf8"})
           ELSE ParsedIsError({"ParsingIntText"})

(* A response with the global flag and a reset-after that is not UTF-8 has
   been parsed. *)
C39_Witness ==
    /\ parsed # None
    /\ GlobalWithoutBucketHeaders
    /\ Has(response, "x-ratelimit-reset-after")
    /\ response["x-ratelimit-reset-after"].sort = "bytes"
    /\ ParsedIsError({"HeaderNotUtf8"})

(* The rows of a table keyed by id that belong to a guild other than g, and
   the rows of a table keyed by (guild id, user id) of a guild other than g. *)
RowsOfOtherGuilds(s, table, g) ==
    {<<k, s[table][k]>> : k \in {x \in DOMAIN s[table] : s[table][x].guild_id # g}}
PairRowsOfOtherGuilds(s, table, g) ==
    {<<k, s[table][k]>> : k \in {x \in DOMAIN s[table] : x[1] # g}}
EntriesOfOtherGuilds(s, idx, g) ==
    {<<h, s[idx][h]>> : h \in DOMAIN s[idx] \ {g}}

(* C40: GuildDelete(g) leaves unchanged every row and every index entry
   that belongs to a guild other than g, in every reachable state (including
   states where an entity id had been indexed under more than one guild),
   and leaves the unavailable-guild set and the current user unchanged. *)
C40_GuildDeleteLeavesOtherGuilds ==
    [][(budget' < budget /\ last'.kind = "GuildDelete") =>
           LET g == last'.ev.id
           IN /\ EntriesOfOtherGuilds(cache', "guilds", g)
                    = EntriesOfOtherGuilds(cache, "guilds", g)
              /\ \A table \in {"channels_guild", "emojis", "roles"} :
                    RowsOfOtherGuilds(cache', table, g)
                        = RowsOfOtherGuilds(cache, table, g)
              /\ \A table \in {"members", "presences", "voice_states"} :
                    PairRowsOfOtherGuilds(cache', table, g)
                        = PairRowsOfOtherGuilds(cache, table, g)
              /\ \A idx \in GuildIndices :
                    EntriesOfOtherGuilds(cache', idx, g)
                        = EntriesOfOtherGuilds(cache, idx, g)
              /\ cache'.unavailable_guilds = cache.unavailable_guilds
              /\ cache'.current_user = cache.current_user
      ]_vars

----------------------------------------------------------------------------
(* Claims about the cluster builder.                                       *)

\* C22: when no gateway URL was configured and the request of the gateway
\* information fails, build returns ClusterStartError::RetrievingGatewayInfo
\* and no cluster.
C22_DiscoveryFailureIsReported ==
    \A o \in outcome :
        (o.method = "build" /\ ~o.url_configured /\ o.discovery = "failed") =>
            /\ ~o.result.ok
            /\ o.result.err.kind = "ClusterStartError::RetrievingGatewayInfo"

\* The client given by the last http_client call of the chain, if any.
ConfiguredClient ==
    LET idx == {i \in 1..Len(calls) : calls[i].method = "http_client"}
    IN IF idx = {} THEN None ELSE Some(calls[Max(idx)].arg)

\* C23: after http_client(c), in any order with the other builder methods,
\* the configuration build hands to the cluster uses c as the HTTP client
\* of the cluster itself and of every shard.
C23_HttpClientReachesClusterAndShards ==
    \A o \in outcome : \A c \in ConfiguredClient :
        (o.method = "build" /\ o.result.ok) =>
            /\ o.result.v.config.http_client = c
            /\ o.result.v.config.shard_config.http_client = c

HasBotPrefix(s) ==
    Len(s) >= 4 /\ s[1] = "B" /\ s[2] = "o" /\ s[3] = "t" /\ s[4] = " "

\* The tokens a ClusterBuilder holds: in its default HTTP client, in the
\* shard configuration of the cluster configuration, in its shard builder.
HeldTokens ==
    {builder.config.http_client.token, builder.config.shard_config.token,
     builder.shard.token}

\* C24: the token held by a ClusterBuilder always starts with "Bot ": a
\* token given without the prefix has it prepended once, a token given
\* with it is kept unchanged.
C24_TokenIsPrefixedOnce ==
    LET given == calls[1].arg
    IN (Len(calls) > 0 /\ calls[1].method = "new") =>
           \A held \in HeldTokens :
               /\ HasBotPrefix(held)
               /\ HasBotPrefix(given) => held = given
               /\ ~HasBotPrefix(given) => held = <<"B", "o", "t", " ">> \o given

\* A token "Bot" (no space) was given, the builder holds "Bot Bot", and a
\* builder method has been called since.
C24_Witness ==
    /\ Len(calls) > 1
    /\ calls[1].arg = <<"B", "o", "t">>
    /\ HeldTokens = {<<"B", "o", "t", " ", "B", "o", "t">>}

\* C25: large_threshold(v) succeeds exactly when 50 <= v <= 250; a smaller
\* value fails with LargeThresholdError::TooFew and a larger one with
\* LargeThresholdError::TooMany, at the call itself.
C25_LargeThresholdRange ==
    [][LET call == calls'[Len(calls')]
           v == call.arg
       IN (Len(calls') > Len(calls) /\ call.method = "large_threshold") =>
              /\ (50 <= v /\ v <= 250) =>
                     /\ outcome' = None
                     /\ builder'.shard.large_threshold = Some(v)
              /\ v < 50 =>
                     /\ outcome' # None
                     /\ \A o \in outcome' :
                            /\ o.method = "large_threshold"
                            /\ ~o.result.ok
                            /\ o.result.err.kind = "LargeThresholdError::TooFew"
              /\ v > 250 =>
                     /\ outcome' # None
                     /\ \A o \in outcome' :
                            /\ o.method = "large_threshold"
                            /\ ~o.result.ok
                            /\ o.result.err.kind = "LargeThresholdError::TooMany"
    ]_vars

\* large_threshold(251) was called and failed with TooMany.
C25_Witness ==
    /\ Len(calls) > 1
    /\ calls[Len(calls)] = [method |-> "large_threshold", arg |-> 251]
    /\ \E o \in outcome : o.result.err.kind = "LargeThresholdError::TooMany"

====
